---------------------------- MODULE Spec2Model ----------------------------
(***************************************************************************)
(* A model of the users-directory application:                             *)
(*   - the grouping engine (UserGroupingService.performSyncGrouping and    *)
(*     the worker's groupUsers), a pure function, under SpecGroup, and     *)
(*     under SpecEngine on the five-record scenario and on every age too;  *)
(*   - the pagination controller (UsersService) under any caller, under    *)
(*     Spec, and under FairSpec with an upstream that answers;             *)
(*   - the pagination controller driven by the composition root            *)
(*     (AppComponent) and its auto-continuation timers, under SpecApp,     *)
(*     and under FairApp with timers that fire and an upstream that        *)
(*     answers;                                                            *)
(*   - the grouping coordinator (UserGroupingService) with its two         *)
(*     backends, the background worker and the deferred fallback, under    *)
(*     SpecCoord, and under FairCoord with the event loop's fairness;      *)
(*   - the age buckets of the engine on every age, under SpecAge;          *)
(*   - UsersService.searchUsers, a pure function, under SpecSearch;        *)
(*   - the list component (UserListComponent) with its debounced search    *)
(*     box, under SpecList, and its view handlers (grouping, view and      *)
(*     expansion toggles) without the search box, under SpecView.          *)
(*                                                                         *)
(* JavaScript strings are sequences of one-character strings, so that      *)
(* charAt, toUpperCase, split, parseInt and localeCompare are computed and *)
(* not assumed.  An absent (undefined) string field is Undef.              *)
(***************************************************************************)
EXTENDS Integers, Sequences, FiniteSets, TLC

VARIABLES
    \* ---- grouping engine (SpecGroup) ----
    gUsers,      \* the record list handed to the engine
    gBy,         \* the grouping criterion
    gSync,       \* result of performSyncGrouping, or NotRun
    gWorker,     \* result of the worker's groupUsers, or NotRun
    \* ---- UsersService ----
    allUsers,    \* allUsersSubject.value: the accumulated record set
    pag,         \* paginationSubject.value: page, results, hasMore, loading, error
    inflight,    \* page fetches subscribed and not yet answered, in issue order
    \* ---- AppComponent ----
    app,         \* "created" | "active" | "destroyed"
    sigUsers,    \* the users signal
    sigPag,      \* the pagination signal
    timers,      \* pending setTimeout callbacks, by kind
    \* ---- observation ----
    ev,          \* the operation that produced the current state
    errStop,     \* a fetch error has set hasMore to false since the last reset
    \* ---- UserGroupingService (the grouping coordinator) ----
    coord,       \* worker: this.worker is set; terminated; loading: loadingSubject.value
    toWorker,    \* messages posted to the worker and not yet handled
    fromWorker,  \* message and error events of the worker not yet dispatched
    tasks,       \* setTimeout(..., 0) callbacks of fallbackGrouping not yet run
    stream,      \* what groupingSubject has emitted, in order
    reqs,        \* the groupUsers calls made: their arguments and what became of them
    cev,         \* the coordinator operation that produced the current state
    \* ---- searching (UsersService.searchUsers) ----
    records,     \* allUsersSubject.value as the records themselves
    query,       \* the term handed to searchUsers
    found,       \* what the observable searchUsers returned has emitted, or NotRun
    \* ---- UserListComponent ----
    lc,          \* its life cycle, its users input and its signals
    deb,         \* debounceTime: the value held back and the time left of its window
    lastOut,     \* distinctUntilChanged: the value it let through last
    subs,        \* the terms of the live subscriptions to searchUsers(term)
    asked,       \* the grouping request handed to the coordinator last
    lev          \* the list component operation that produced the current state

groupVars == <<gUsers, gBy, gSync, gWorker>>
pageVars  == <<allUsers, pag, inflight, app, sigUsers, sigPag, timers, ev, errStop>>
coordVars == <<coord, toWorker, fromWorker, tasks, stream, reqs, cev>>
searchVars == <<records, query, found>>
listVars  == <<lc, deb, lastOut, subs, asked, lev>>
vars      == <<groupVars, pageVars, coordVars, searchVars, listVars>>

\* what the operations of one component leave alone
nonGroupVars  == <<pageVars, coordVars, searchVars, listVars>>
nonPageVars   == <<groupVars, coordVars, searchVars, listVars>>
nonCoordVars  == <<groupVars, pageVars, searchVars, listVars>>
nonSearchVars == <<groupVars, pageVars, coordVars, listVars>>
nonListVars   == <<groupVars, pageVars, coordVars>>

-----------------------------------------------------------------------------
(* Bounds of the model *)

MaxLen == 3        \* longest record list handed to the grouping engine
MaxAge == 70       \* greatest age of a record grouped by age

-----------------------------------------------------------------------------
(* JavaScript strings *)

Undef == <<"<undefined>">>

Truthy(s) == s # Undef /\ s # <<>>

\* x || d for a string x
OrElse(s, d) == IF Truthy(s) THEN s ELSE d

LowerChars == <<"a", "b", "c", "d", "e", "f", "g", "h", "i", "j", "k", "l", "m",
                "n", "o", "p", "q", "r", "s", "t", "u", "v", "w", "x", "y", "z">>
UpperChars == <<"A", "B", "C", "D", "E", "F", "G", "H", "I", "J", "K", "L", "M",
                "N", "O", "P", "Q", "R", "S", "T", "U", "V", "W", "X", "Y", "Z">>
DigitChars == <<"0", "1", "2", "3", "4", "5", "6", "7", "8", "9">>
\* whitespace, punctuation and symbols, in collation order
OtherChars == <<" ", "-", "+">>

\* position of c in the sequence s, 0 when it does not occur
IndexOf(s, c) ==
    IF \E i \in 1..Len(s) : s[i] = c
    THEN CHOOSE i \in 1..Len(s) : s[i] = c
    ELSE 0

IsUpper(c) == IndexOf(UpperChars, c) > 0
IsLower(c) == IndexOf(LowerChars, c) > 0
IsDigit(c) == IndexOf(DigitChars, c) > 0

CharToUpper(c) == IF IsLower(c) THEN UpperChars[IndexOf(LowerChars, c)] ELSE c
CharToLower(c) == IF IsUpper(c) THEN LowerChars[IndexOf(UpperChars, c)] ELSE c

toUpperCase(s) == [i \in 1..Len(s) |-> CharToUpper(s[i])]
toLowerCase(s) == [i \in 1..Len(s) |-> CharToLower(s[i])]

\* s.charAt(0), the empty string when s is empty
charAt0(s) == IF Len(s) = 0 THEN <<>> ELSE <<s[1]>>

\* s.slice(1)
slice1(s) == IF Len(s) = 0 THEN <<>> ELSE Tail(s)

\* s.split(sep)[0]: the part of s before the first occurrence of sep
splitFirst(s, sep) ==
    IF IndexOf(s, sep) = 0 THEN s ELSE SubSeq(s, 1, IndexOf(s, sep) - 1)

\* the value of the decimal digit c
DigitValue(c) == IndexOf(DigitChars, c) - 1

RECURSIVE DigitsValue(_, _)
DigitsValue(s, acc) ==
    IF Len(s) = 0 \/ ~IsDigit(s[1]) THEN acc
    ELSE DigitsValue(Tail(s), acc * 10 + DigitValue(s[1]))

\* Number.parseInt(s) || 0 for an unsigned s: the value of the leading digits,
\* and 0 when there are none (parseInt gives NaN, which is falsy)
parseIntOrZero(s) == DigitsValue(s, 0)

\* Collation (the root locale, on the characters of the model): a primary weight
\* that ignores case and orders whitespace < punctuation < digits < letters, and
\* lower case before upper case when the primary weights are all equal.
PrimaryWeight(c) ==
    IF IndexOf(OtherChars, c) > 0 THEN IndexOf(OtherChars, c)
    ELSE IF IsDigit(c) THEN Len(OtherChars) + IndexOf(DigitChars, c)
    ELSE Len(OtherChars) + Len(DigitChars) + IndexOf(LowerChars, CharToLower(c))

CaseWeight(c) == IF IsUpper(c) THEN 1 ELSE 0

RECURSIVE SeqCompare(_, _)
\* lexicographic comparison of two sequences of numbers: -1, 0 or 1
SeqCompare(a, b) ==
    IF Len(a) = 0 /\ Len(b) = 0 THEN 0
    ELSE IF Len(a) = 0 THEN -1
    ELSE IF Len(b) = 0 THEN 1
    ELSE IF a[1] < b[1] THEN -1
    ELSE IF a[1] > b[1] THEN 1
    ELSE SeqCompare(Tail(a), Tail(b))

\* a.localeCompare(b)
localeCompare(a, b) ==
    LET p == SeqCompare([i \in 1..Len(a) |-> PrimaryWeight(a[i])],
                        [i \in 1..Len(b) |-> PrimaryWeight(b[i])])
    IN  IF p # 0 THEN p
        ELSE SeqCompare([i \in 1..Len(a) |-> CaseWeight(a[i])],
                        [i \in 1..Len(b) |-> CaseWeight(b[i])])

-----------------------------------------------------------------------------
(* Records *)

\* an absent age (age?: number)
NoAge == -1

Unknown == <<"U", "n", "k", "n", "o", "w", "n">>
All     == <<"A", "l", "l">>

\* the closed set of criteria, and one value outside it
Criteria == {"alphabetical", "nationality", "age", "gender"}
AnyCriteria == Criteria \cup {"country"}

MkUser(id, first, nat, age, gender) ==
    [uuid |-> id, firstname |-> first, nat |-> nat, age |-> age, gender |-> gender]

\* the records the engine is run on
UserPool ==
    { MkUser(1, <<"A", "l">>,      <<"D", "E">>, 17,    <<"m", "a", "l", "e">>),
      MkUser(2, <<"a", "l">>,      <<"U", "S">>, 18,    <<"f", "e", "m", "a", "l", "e">>),
      MkUser(3, <<"B", "o">>,      <<"D", "E">>, 65,    <<"f", "e", "m", "a", "l", "e">>),
      MkUser(4, Undef,             Undef,        NoAge, Undef),
      MkUser(5, <<>>,              <<"X", "X">>, 24,    <<"m", "a", "l", "e">>),
      MkUser(6, <<"V", "i">>,      Unknown,      25,    <<>>),
      MkUser(7, <<"B", "o">>,      <<"G", "B">>, 0,     <<"m", "a", "l", "e">>) }

\* the ages of the records grouped by age
Ages == 0..MaxAge

\* user.age || 0
AgeOrZero(age) == IF age = NoAge THEN 0 ELSE age

-----------------------------------------------------------------------------
(* The grouping engine of the fallback backend (UserGroupingService) *)

\* boundaries that take the upper end into the lower bucket
getAgeGroupInclusive(age) ==
    IF age <= 18 THEN [key |-> <<"0", "-", "1", "7">>, label |-> <<"U", "n", "d", "e", "r", " ", "1", "8">>]
    ELSE IF age <= 25 THEN [key |-> <<"1", "8", "-", "2", "4">>, label |-> <<"1", "8", "-", "2", "4", " ", "y", "e", "a", "r", "s">>]
    ELSE IF age <= 35 THEN [key |-> <<"2", "5", "-", "3", "4">>, label |-> <<"2", "5", "-", "3", "4", " ", "y", "e", "a", "r", "s">>]
    ELSE IF age <= 45 THEN [key |-> <<"3", "5", "-", "4", "4">>, label |-> <<"3", "5", "-", "4", "4", " ", "y", "e", "a", "r", "s">>]
    ELSE IF age <= 55 THEN [key |-> <<"4", "5", "-", "5", "4">>, label |-> <<"4", "5", "-", "5", "4", " ", "y", "e", "a", "r", "s">>]
    ELSE IF age <= 65 THEN [key |-> <<"5", "5", "-", "6", "4">>, label |-> <<"5", "5", "-", "6", "4", " ", "y", "e", "a", "r", "s">>]
    ELSE [key |-> <<"6", "5", "+">>, label |-> <<"6", "5", "+", " ", "y", "e", "a", "r", "s">>]

\* getAgeGroup(age)
getAgeGroup(age) ==
    IF age < 18 THEN [key |-> <<"0", "-", "1", "7">>, label |-> <<"U", "n", "d", "e", "r", " ", "1", "8">>]
    ELSE IF age < 25 THEN [key |-> <<"1", "8", "-", "2", "4">>, label |-> <<"1", "8", "-", "2", "4", " ", "y", "e", "a", "r", "s">>]
    ELSE IF age < 35 THEN [key |-> <<"2", "5", "-", "3", "4">>, label |-> <<"2", "5", "-", "3", "4", " ", "y", "e", "a", "r", "s">>]
    ELSE IF age < 45 THEN [key |-> <<"3", "5", "-", "4", "4">>, label |-> <<"3", "5", "-", "4", "4", " ", "y", "e", "a", "r", "s">>]
    ELSE IF age < 55 THEN [key |-> <<"4", "5", "-", "5", "4">>, label |-> <<"4", "5", "-", "5", "4", " ", "y", "e", "a", "r", "s">>]
    ELSE IF age < 65 THEN [key |-> <<"5", "5", "-", "6", "4">>, label |-> <<"5", "5", "-", "6", "4", " ", "y", "e", "a", "r", "s">>]
    ELSE [key |-> <<"6", "5", "+">>, label |-> <<"6", "5", "+", " ", "y", "e", "a", "r", "s">>]

\* nationalities[code] || code
getNationalityName(code) ==
    CASE code = <<"A", "U">> -> <<"A", "u", "s", "t", "r", "a", "l", "i", "a">>
      [] code = <<"B", "R">> -> <<"B", "r", "a", "z", "i", "l">>
      [] code = <<"C", "A">> -> <<"C", "a", "n", "a", "d", "a">>
      [] code = <<"C", "H">> -> <<"S", "w", "i", "t", "z", "e", "r", "l", "a", "n", "d">>
      [] code = <<"D", "E">> -> <<"G", "e", "r", "m", "a", "n", "y">>
      [] code = <<"D", "K">> -> <<"D", "e", "n", "m", "a", "r", "k">>
      [] code = <<"E", "S">> -> <<"S", "p", "a", "i", "n">>
      [] code = <<"F", "I">> -> <<"F", "i", "n", "l", "a", "n", "d">>
      [] code = <<"F", "R">> -> <<"F", "r", "a", "n", "c", "e">>
      [] code = <<"G", "B">> -> <<"U", "n", "i", "t", "e", "d", " ", "K", "i", "n", "g", "d", "o", "m">>
      [] code = <<"I", "E">> -> <<"I", "r", "e", "l", "a", "n", "d">>
      [] code = <<"I", "N">> -> <<"I", "n", "d", "i", "a">>
      [] code = <<"I", "R">> -> <<"I", "r", "a", "n">>
      [] code = <<"M", "X">> -> <<"M", "e", "x", "i", "c", "o">>
      [] code = <<"N", "L">> -> <<"N", "e", "t", "h", "e", "r", "l", "a", "n", "d", "s">>
      [] code = <<"N", "O">> -> <<"N", "o", "r", "w", "a", "y">>
      [] code = <<"N", "Z">> -> <<"N", "e", "w", " ", "Z", "e", "a", "l", "a", "n", "d">>
      [] code = <<"R", "S">> -> <<"S", "e", "r", "b", "i", "a">>
      [] code = <<"T", "R">> -> <<"T", "u", "r", "k", "e", "y">>
      [] code = <<"U", "A">> -> <<"U", "k", "r", "a", "i", "n", "e">>
      [] code = <<"U", "S">> -> <<"U", "n", "i", "t", "e", "d", " ", "S", "t", "a", "t", "e", "s">>
      [] OTHER -> code

\* an alphabetical key that keeps the letter case of the first name
KeyOfAsIs(user, groupBy) ==
    CASE groupBy = "alphabetical" ->
           IF Truthy(user.firstname) THEN charAt0(user.firstname)
           ELSE Unknown
      [] groupBy = "nationality" -> OrElse(user.nat, Unknown)
      [] groupBy = "age" -> getAgeGroup(AgeOrZero(user.age)).key
      [] groupBy = "gender" -> OrElse(user.gender, Unknown)
      [] OTHER -> All

\* the switch on groupBy: the partition key of one record
KeyOf(user, groupBy) ==
    CASE groupBy = "alphabetical" ->
           IF Truthy(user.firstname) THEN toUpperCase(charAt0(user.firstname))
           ELSE Unknown
      [] groupBy = "nationality" -> OrElse(user.nat, Unknown)
      [] groupBy = "age" -> getAgeGroup(AgeOrZero(user.age)).key
      [] groupBy = "gender" -> OrElse(user.gender, Unknown)
      [] OTHER -> All

\* a map whose entry is set anew on every push, losing the earlier members
MapPushOverwrite(groups, key, user) ==
    IF \E i \in 1..Len(groups) : groups[i].key = key
    THEN [i \in 1..Len(groups) |->
            IF groups[i].key = key
            THEN [groups[i] EXCEPT !.users = <<user>>]
            ELSE groups[i]]
    ELSE Append(groups, [key |-> key, users |-> <<user>>])

\* if (!groups.has(key)) groups.set(key, []); groups.get(key).push(user)
\* on a Map, kept as its entries in insertion order
MapPush(groups, key, user) ==
    IF \E i \in 1..Len(groups) : groups[i].key = key
    THEN [i \in 1..Len(groups) |->
            IF groups[i].key = key
            THEN [groups[i] EXCEPT !.users = Append(@, user)]
            ELSE groups[i]]
    ELSE Append(groups, [key |-> key, users |-> <<user>>])

RECURSIVE GroupInto(_, _, _)
\* for (const user of users) ...
GroupInto(users, groupBy, groups) ==
    IF users = <<>> THEN groups
    ELSE GroupInto(Tail(users), groupBy,
                   MapPush(groups, KeyOf(Head(users), groupBy), Head(users)))

\* (a, b) => (a.firstname || '').localeCompare(b.firstname || '')
UserCompare(a, b) ==
    localeCompare(OrElse(a.firstname, <<>>), OrElse(b.firstname, <<>>))

\* a sort that puts u before the members it compares equal to
InsertUserFirst(sorted, u) ==
    LET n == Cardinality({i \in 1..Len(sorted) : UserCompare(sorted[i], u) < 0})
    IN  SubSeq(sorted, 1, n) \o <<u>> \o SubSeq(sorted, n + 1, Len(sorted))

\* one step of the stable sort of a member list: u goes after the members
\* that do not compare greater than it
InsertUser(sorted, u) ==
    LET n == Cardinality({i \in 1..Len(sorted) : UserCompare(sorted[i], u) <= 0})
    IN  SubSeq(sorted, 1, n) \o <<u>> \o SubSeq(sorted, n + 1, Len(sorted))

RECURSIVE SortUsersInto(_, _)
SortUsersInto(list, sorted) ==
    IF list = <<>> THEN sorted
    ELSE SortUsersInto(Tail(list), InsertUser(sorted, Head(list)))

\* [...groupUsers].sort(...)
SortUsers(list) == SortUsersInto(list, <<>>)

\* a label that is the key under every criterion
LabelOfKey(key, groupBy) == key

\* the label of a group
LabelOf(key, groupBy) ==
    IF key = Unknown THEN Unknown
    ELSE IF groupBy = "nationality" THEN getNationalityName(key)
    ELSE IF groupBy = "age"
         THEN getAgeGroup(parseIntOrZero(splitFirst(key, "-"))).label
    ELSE IF groupBy = "gender" THEN toUpperCase(charAt0(key)) \o slice1(key)
    ELSE key

\* a comparator with no special case for "Unknown"
GroupCompareNoUnknown(a, b) == localeCompare(a.key, b.key)

\* the comparator of the group sort
GroupCompare(a, b) ==
    IF a.key = Unknown THEN 1
    ELSE IF b.key = Unknown THEN -1
    ELSE localeCompare(a.key, b.key)

InsertGroup(sorted, g) ==
    LET n == Cardinality({i \in 1..Len(sorted) : GroupCompare(sorted[i], g) <= 0})
    IN  SubSeq(sorted, 1, n) \o <<g>> \o SubSeq(sorted, n + 1, Len(sorted))

RECURSIVE SortGroupsInto(_, _)
SortGroupsInto(list, sorted) ==
    IF list = <<>> THEN sorted
    ELSE SortGroupsInto(Tail(list), InsertGroup(sorted, Head(list)))

\* .map(([key, groupUsers]) => ({key, label, users: sortedUsers, count}))
MakeGroup(entry, groupBy) ==
    [key   |-> entry.key,
     label |-> LabelOf(entry.key, groupBy),
     users |-> SortUsers(entry.users),
     count |-> Len(entry.users)]

\* a grouping whose map starts with an "Unknown" entry of no members
performSyncGroupingSeeded(users, groupBy) ==
    LET groups == GroupInto(users, groupBy, <<[key |-> Unknown, users |-> <<>>]>>)
        mapped == [i \in 1..Len(groups) |-> MakeGroup(groups[i], groupBy)]
    IN  SortGroupsInto(mapped, <<>>)

performSyncGrouping(users, groupBy) ==
    LET groups == GroupInto(users, groupBy, <<>>)
        mapped == [i \in 1..Len(groups) |-> MakeGroup(groups[i], groupBy)]
    IN  SortGroupsInto(mapped, <<>>)

-----------------------------------------------------------------------------
(* The grouping engine of the background worker (user-grouping.worker.ts) *)

workergetAgeGroup(age) ==
    IF age < 18 THEN [key |-> <<"0", "-", "1", "7">>, label |-> <<"U", "n", "d", "e", "r", " ", "1", "8">>]
    ELSE IF age < 25 THEN [key |-> <<"1", "8", "-", "2", "4">>, label |-> <<"1", "8", "-", "2", "4", " ", "y", "e", "a", "r", "s">>]
    ELSE IF age < 35 THEN [key |-> <<"2", "5", "-", "3", "4">>, label |-> <<"2", "5", "-", "3", "4", " ", "y", "e", "a", "r", "s">>]
    ELSE IF age < 45 THEN [key |-> <<"3", "5", "-", "4", "4">>, label |-> <<"3", "5", "-", "4", "4", " ", "y", "e", "a", "r", "s">>]
    ELSE IF age < 55 THEN [key |-> <<"4", "5", "-", "5", "4">>, label |-> <<"4", "5", "-", "5", "4", " ", "y", "e", "a", "r", "s">>]
    ELSE IF age < 65 THEN [key |-> <<"5", "5", "-", "6", "4">>, label |-> <<"5", "5", "-", "6", "4", " ", "y", "e", "a", "r", "s">>]
    ELSE [key |-> <<"6", "5", "+">>, label |-> <<"6", "5", "+", " ", "y", "e", "a", "r", "s">>]

\* nationalities[code] || code
workergetNationalityName(code) ==
    CASE code = <<"A", "U">> -> <<"A", "u", "s", "t", "r", "a", "l", "i", "a">>
      [] code = <<"B", "R">> -> <<"B", "r", "a", "z", "i", "l">>
      [] code = <<"C", "A">> -> <<"C", "a", "n", "a", "d", "a">>
      [] code = <<"C", "H">> -> <<"S", "w", "i", "t", "z", "e", "r", "l", "a", "n", "d">>
      [] code = <<"D", "E">> -> <<"G", "e", "r", "m", "a", "n", "y">>
      [] code = <<"D", "K">> -> <<"D", "e", "n", "m", "a", "r", "k">>
      [] code = <<"E", "S">> -> <<"S", "p", "a", "i", "n">>
      [] code = <<"F", "I">> -> <<"F", "i", "n", "l", "a", "n", "d">>
      [] code = <<"F", "R">> -> <<"F", "r", "a", "n", "c", "e">>
      [] code = <<"G", "B">> -> <<"U", "n", "i", "t", "e", "d", " ", "K", "i", "n", "g", "d", "o", "m">>
      [] code = <<"I", "E">> -> <<"I", "r", "e", "l", "a", "n", "d">>
      [] code = <<"I", "N">> -> <<"I", "n", "d", "i", "a">>
      [] code = <<"I", "R">> -> <<"I", "r", "a", "n">>
      [] code = <<"M", "X">> -> <<"M", "e", "x", "i", "c", "o">>
      [] code = <<"N", "L">> -> <<"N", "e", "t", "h", "e", "r", "l", "a", "n", "d", "s">>
      [] code = <<"N", "O">> -> <<"N", "o", "r", "w", "a", "y">>
      [] code = <<"N", "Z">> -> <<"N", "e", "w", " ", "Z", "e", "a", "l", "a", "n", "d">>
      [] code = <<"R", "S">> -> <<"S", "e", "r", "b", "i", "a">>
      [] code = <<"T", "R">> -> <<"T", "u", "r", "k", "e", "y">>
      [] code = <<"U", "A">> -> <<"U", "k", "r", "a", "i", "n", "e">>
      [] code = <<"U", "S">> -> <<"U", "n", "i", "t", "e", "d", " ", "S", "t", "a", "t", "e", "s">>
      [] OTHER -> code

\* a switch on groupBy whose default branch keys by 'Unknown'
workerKeyOfUnknown(user, groupBy) ==
    CASE groupBy = "alphabetical" ->
           IF Truthy(user.firstname) THEN toUpperCase(charAt0(user.firstname))
           ELSE Unknown
      [] groupBy = "nationality" -> OrElse(user.nat, Unknown)
      [] groupBy = "age" -> workergetAgeGroup(AgeOrZero(user.age)).key
      [] groupBy = "gender" -> OrElse(user.gender, Unknown)
      [] OTHER -> Unknown

\* the switch on groupBy: the partition key of one record
workerKeyOf(user, groupBy) ==
    CASE groupBy = "alphabetical" ->
           IF Truthy(user.firstname) THEN toUpperCase(charAt0(user.firstname))
           ELSE Unknown
      [] groupBy = "nationality" -> OrElse(user.nat, Unknown)
      [] groupBy = "age" -> workergetAgeGroup(AgeOrZero(user.age)).key
      [] groupBy = "gender" -> OrElse(user.gender, Unknown)
      [] OTHER -> All

\* if (!groups.has(key)) groups.set(key, []); groups.get(key).push(user)
\* on a Map, kept as its entries in insertion order
workerMapPush(groups, key, user) ==
    IF \E i \in 1..Len(groups) : groups[i].key = key
    THEN [i \in 1..Len(groups) |->
            IF groups[i].key = key
            THEN [groups[i] EXCEPT !.users = Append(@, user)]
            ELSE groups[i]]
    ELSE Append(groups, [key |-> key, users |-> <<user>>])

RECURSIVE workerGroupInto(_, _, _)
\* for (const user of users) ...
workerGroupInto(users, groupBy, groups) ==
    IF users = <<>> THEN groups
    ELSE workerGroupInto(Tail(users), groupBy,
                   workerMapPush(groups, workerKeyOf(Head(users), groupBy), Head(users)))

\* (a, b) => (a.firstname || '').localeCompare(b.firstname || '')
workerUserCompare(a, b) ==
    localeCompare(OrElse(a.firstname, <<>>), OrElse(b.firstname, <<>>))

\* one step of the stable sort of a member list: u goes after the members
\* that do not compare greater than it
workerInsertUser(sorted, u) ==
    LET n == Cardinality({i \in 1..Len(sorted) : workerUserCompare(sorted[i], u) <= 0})
    IN  SubSeq(sorted, 1, n) \o <<u>> \o SubSeq(sorted, n + 1, Len(sorted))

RECURSIVE workerSortUsersInto(_, _)
workerSortUsersInto(list, sorted) ==
    IF list = <<>> THEN sorted
    ELSE workerSortUsersInto(Tail(list), workerInsertUser(sorted, Head(list)))

\* [...groupUsers].sort(...)
workerSortUsers(list) == workerSortUsersInto(list, <<>>)

\* the label of a group
workerLabelOf(key, groupBy) ==
    IF key = Unknown THEN Unknown
    ELSE IF groupBy = "nationality" THEN workergetNationalityName(key)
    ELSE IF groupBy = "age"
         THEN workergetAgeGroup(parseIntOrZero(splitFirst(key, "-"))).label
    ELSE IF groupBy = "gender" THEN toUpperCase(charAt0(key)) \o slice1(key)
    ELSE key

\* a comparator of the group sort without the rule for 'Unknown'
workerGroupCompareByKey(a, b) == localeCompare(a.key, b.key)

\* the comparator of the group sort
workerGroupCompare(a, b) ==
    IF a.key = Unknown THEN 1
    ELSE IF b.key = Unknown THEN -1
    ELSE localeCompare(a.key, b.key)

workerInsertGroup(sorted, g) ==
    LET n == Cardinality({i \in 1..Len(sorted) : workerGroupCompare(sorted[i], g) <= 0})
    IN  SubSeq(sorted, 1, n) \o <<g>> \o SubSeq(sorted, n + 1, Len(sorted))

RECURSIVE workerSortGroupsInto(_, _)
workerSortGroupsInto(list, sorted) ==
    IF list = <<>> THEN sorted
    ELSE workerSortGroupsInto(Tail(list), workerInsertGroup(sorted, Head(list)))

\* .map(([key, groupUsers]) => ({key, label, users: sortedUsers, count}))
workerMakeGroup(entry, groupBy) ==
    [key   |-> entry.key,
     label |-> workerLabelOf(entry.key, groupBy),
     users |-> workerSortUsers(entry.users),
     count |-> Len(entry.users)]

workerGroupUsers(users, groupBy) ==
    LET groups == workerGroupInto(users, groupBy, <<>>)
        mapped == [i \in 1..Len(groups) |-> workerMakeGroup(groups[i], groupBy)]
    IN  [groups |-> workerSortGroupsInto(mapped, <<>>)]


-----------------------------------------------------------------------------
(* The grouping engine as a state machine: a record list and a criterion are *)
(* drawn, and each backend's engine is run on them once.                     *)

NotRun == [done |-> FALSE, groups |-> <<>>]

\* the record lists: up to MaxLen distinct records of the pool, in any order
RecordLists ==
    UNION { { s \in [1..n -> UserPool] : \A i, j \in 1..n : i # j => s[i] # s[j] }
            : n \in 0..MaxLen }

\* five records: two first names in "A", one in "B", two with no first name
Scenario == {u \in UserPool : u.uuid \in 1..5}

\* the five records in every order
ScenarioLists ==
    { s \in [1..5 -> Scenario] : \A i, j \in 1..5 : i # j => s[i] # s[j] }

\* one record of every age, and of none
AgeLists ==
    { <<MkUser(1, <<"A", "l">>, <<"D", "E">>, a, <<"m", "a", "l", "e">>)>> :
        a \in Ages \cup {NoAge} }

RunSync ==
    /\ ~gSync.done
    /\ gSync' = [done |-> TRUE, groups |-> performSyncGrouping(gUsers, gBy)]
    /\ UNCHANGED <<gUsers, gBy, gWorker>>
    /\ UNCHANGED nonGroupVars

RunWorker ==
    /\ ~gWorker.done
    /\ gWorker' = [done |-> TRUE, groups |-> workerGroupUsers(gUsers, gBy).groups]
    /\ UNCHANGED <<gUsers, gBy, gSync>>
    /\ UNCHANGED nonGroupVars


-----------------------------------------------------------------------------
(* The pagination controller (UsersService)                                  *)
(*                                                                           *)
(* The accumulated record set is kept as a sequence of chunks: the chunk     *)
(* [page |-> p, size |-> n, count |-> k] stands for the k records the        *)
(* upstream returned for page p at page size n, in their order.  The seed is *)
(* fixed, so a page's records depend on (p, n) only.  A message is a         *)
(* sequence of text pieces.                                                  *)

MaxPage     == 2   \* a fetch starts only for a page up to MaxPage
MaxInflight == 2   \* fetches outstanding at once
MaxTimers   == 2   \* setTimeout callbacks pending at once

DefaultPageSize == 5000
LowWaterMark    == 1000

\* the page sizes a caller passes
PageSizes == {100, DefaultPageSize}

\* the numbers of records the upstream answers a request of n records with
RespCounts(n) == {k \in {0, 999, n} : k <= n}

NoError == <<>>

Chunk(p, n, k) == IF k = 0 THEN <<>> ELSE <<[page |-> p, size |-> n, count |-> k]>>

RECURSIVE Count(_)
\* users.length
Count(users) == IF users = <<>> THEN 0 ELSE Head(users).count + Count(Tail(users))

\* the pieces of text an upstream error can carry
PlainHttpText  == "Http failure response for https://randomuser.me/api/: Error"
MarkedHttpText == "Http failure response for https://randomuser.me/api/: please ease up"
PlainBodyText  == "Uh oh, something has gone wrong."
EaseUpBodyText == "Whoa, ease up there cowboy!"
BandwidthBodyText == "You have exceeded your bandwidth limit."
MapErrorText   == "Cannot read properties of undefined (reading 'first')"

\* s.includes(marker) for a piece of text
PieceIncludes(piece, marker) ==
    \/ marker = "ease up"   /\ piece \in {MarkedHttpText, EaseUpBodyText}
    \/ marker = "bandwidth" /\ piece \in {BandwidthBodyText}

Includes(msg, marker) == \E i \in 1..Len(msg) : PieceIncludes(msg[i], marker)

\* an HttpErrorResponse
HttpError(status, text) == [kind |-> "http", status |-> status, message |-> <<text>>]

\* new Error(`API Error: ${response.error}`), thrown for an error in the body
BodyError(payload) == [kind |-> "error", message |-> <<"API Error: ", payload>>]

\* what the upstream can answer a fetch with, other than records
UpstreamErrors ==
    { HttpError(429, PlainHttpText), HttpError(0, PlainHttpText),
      HttpError(503, PlainHttpText), HttpError(404, PlainHttpText),
      HttpError(400, PlainHttpText), HttpError(400, MarkedHttpText),
      BodyError(PlainBodyText), BodyError(EaseUpBodyText),
      BodyError(BandwidthBodyText) }

\* the errors the upstream answers with under SpecApp: a rate limit and a
\* failure that is none
AppUpstreamErrors == { HttpError(429, PlainHttpText), BodyError(PlainBodyText) }

RateLimit429Message ==
    <<"API rate limit exceeded. The Random User API limits requests for large datasets. Try refreshing in a moment.">>
RateLimitBodyMessage ==
    <<"API rate limit exceeded. Too many requests have been made recently. Please wait a few minutes and refresh the page.">>
RateLimitSessionMessage ==
    <<"API rate limit exceeded. The Random User API has limited this session due to too many requests. Please wait a few minutes and refresh the page to try again.">>

\* a getErrorMessage that does not look for the markers in a message
getErrorMessageNoMarker(error) ==
    IF error.kind = "http"
    THEN CASE error.status = 429 -> RateLimit429Message
           [] error.status = 0 ->
                <<"Network connection failed. Please check your internet connection.">>
           [] error.status \in {500, 502, 503} ->
                <<"Server temporarily unavailable. Please try again later.">>
           [] error.status = 404 ->
                <<"API endpoint not found. Please verify the service is available.">>
           [] OTHER ->
                <<"Request failed: ">> \o
                    (IF error.message = <<>> THEN <<"Unknown error occurred">>
                     ELSE error.message)
    ELSE <<"API Error: ">> \o error.message

getErrorMessage(error) ==
    IF error.kind = "http"
    THEN CASE error.status = 429 -> RateLimit429Message
           [] error.status = 0 ->
                <<"Network connection failed. Please check your internet connection.">>
           [] error.status \in {500, 502, 503} ->
                <<"Server temporarily unavailable. Please try again later.">>
           [] error.status = 404 ->
                <<"API endpoint not found. Please verify the service is available.">>
           [] OTHER ->
                <<"Request failed: ">> \o
                    (IF error.message = <<>> THEN <<"Unknown error occurred">>
                     ELSE error.message)
    ELSE IF Includes(error.message, "ease up") \/ Includes(error.message, "bandwidth")
         THEN RateLimitBodyMessage
         ELSE <<"API Error: ">> \o error.message

isRateLimit(error) ==
    \/ error.kind = "http" /\ error.status = 429
    \/ Includes(error.message, "ease up")
    \/ Includes(error.message, "bandwidth")

\* the pagination state handleApiError leaves; it answers with no records
handleApiError(pg, error) ==
    LET limited == IF isRateLimit(error)
                   THEN [pg EXCEPT !.loading = FALSE, !.hasMore = FALSE,
                                   !.error = RateLimitSessionMessage]
                   ELSE pg
    IN  [limited EXCEPT !.loading = FALSE, !.hasMore = FALSE,
                        !.error = getErrorMessage(error)]

\* a map that takes any non-empty page as a sign of more
OnResponseHasMoreIfAny(users, pg, f, k) ==
    LET mapped  == Chunk(f.page, f.results, k)
        updated == IF f.page = 1 THEN mapped ELSE users \o mapped
    IN  [allUsers |-> updated,
         pag |-> [pg EXCEPT !.page = f.page + 1, !.results = f.results,
                            !.hasMore = (k > 0), !.loading = FALSE]]

\* the map of loadNextPage's pipe, run on a response of k records for the
\* fetch f: the new accumulated set and pagination state
OnResponse(users, pg, f, k) ==
    LET mapped  == Chunk(f.page, f.results, k)
        updated == IF f.page = 1 THEN mapped ELSE users \o mapped
    IN  [allUsers |-> updated,
         pag |-> [pg EXCEPT !.page = f.page + 1, !.results = f.results,
                            !.hasMore = (k = f.results), !.loading = FALSE]]

\* a catchError that records the error and leaves the loading flag alone
OnMapErrorKeepsLoading(pg, text) ==
    [pg EXCEPT !.error = IF text = "" THEN <<"Failed to load users">> ELSE <<text>>]

\* the catchError of loadNextPage's pipe
OnMapError(pg, text) ==
    [pg EXCEPT !.loading = FALSE,
               !.error = IF text = "" THEN <<"Failed to load users">> ELSE <<text>>]

\* loadNextPage(results) on the pagination state pg and the outstanding
\* fetches inf: the state it leaves, whether it started a fetch, and what the
\* observable it returns emits at once
loadNextPage(pg, inf, results) ==
    IF pg.loading \/ ~pg.hasMore
    THEN [pag |-> pg, inflight |-> inf, started |-> FALSE, emits |-> TRUE, ret |-> <<>>]
    ELSE [pag |-> [pg EXCEPT !.loading = TRUE, !.error = NoError],
          inflight |-> Append(inf, [page |-> pg.page, results |-> results]),
          started |-> TRUE, emits |-> FALSE, ret |-> <<>>]

\* the pagination state resetAndLoad(results) sets before it loads
ResetState(results) ==
    [page |-> 1, results |-> results, hasMore |-> TRUE, loading |-> FALSE,
     error |-> NoError]

\* a resetAndLoad that resets and does not load
resetAndLoadNoLoad(inf, results) ==
    [pag |-> ResetState(results), inflight |-> inf, started |-> FALSE,
     emits |-> TRUE, ret |-> <<>>]

\* resetAndLoad(results): the reset, then loadNextPage(results)
resetAndLoad(inf, results) == loadNextPage(ResetState(results), inf, results)


-----------------------------------------------------------------------------
(* The composition root (AppComponent) and the operations of the system      *)

NoTimers == [auto |-> 0, more |-> 0]

Pending(tm) == tm.auto + tm.more

NoErr == [kind |-> "none", message |-> <<>>]

\* the record of an operation, for the properties to refer to
Ev(op, via, page, n, k, err, started, emits, ret) ==
    [op |-> op, via |-> via, page |-> page, n |-> n, k |-> k, err |-> err,
     started |-> started, emits |-> emits, ret |-> ret]

\* the next handler of the allUsers$ subscription, startAutoLoading included:
\* the timers pending after the emission of users
OnUsers(tm, users) ==
    IF Count(users) < LowWaterMark THEN [tm EXCEPT !.auto = @ + 1] ELSE tm

\* remove the i-th outstanding fetch
Without(inf, i) == SubSeq(inf, 1, i - 1) \o SubSeq(inf, i + 1, Len(inf))

\* the service's loadNextPage(n), called by `via`, with its subscribers
CallLoadNextPage(n, via) ==
    LET r == loadNextPage(pag, inflight, n)
    IN  /\ r.started => pag.page <= MaxPage /\ Len(inflight) < MaxInflight
        /\ pag' = r.pag
        /\ inflight' = r.inflight
        /\ sigPag' = IF app = "active" THEN r.pag ELSE sigPag
        /\ ev' = Ev("loadNextPage", via, pag.page, n, 0, NoErr,
                    r.started, r.emits, r.ret)
        /\ UNCHANGED <<allUsers, sigUsers, errStop>>

\* the service's resetAndLoad(n), called by `via`, with its subscribers; tm are
\* the timers pending when it is called
CallResetAndLoad(n, via, tm) ==
    LET r   == resetAndLoad(inflight, n)
        tm1 == IF app' = "active" THEN OnUsers(tm, <<>>) ELSE tm
    IN  /\ Len(inflight) < MaxInflight
        /\ Pending(tm1) <= MaxTimers
        /\ allUsers' = <<>>
        /\ pag' = r.pag
        /\ inflight' = r.inflight
        /\ sigUsers' = IF app' = "active" THEN <<>> ELSE sigUsers
        /\ sigPag' = IF app' = "active" THEN r.pag ELSE sigPag
        /\ timers' = tm1
        /\ errStop' = FALSE
        /\ ev' = Ev("resetAndLoad", via, 1, n, 0, NoErr, r.started, r.emits, r.ret)

\* a caller of the service's public loadNextPage
SvcLoadNextPage ==
    /\ \E n \in PageSizes : CallLoadNextPage(n, "service")
    /\ UNCHANGED <<app, timers>>
    /\ UNCHANGED nonPageVars

\* a caller of the service's public resetAndLoad
SvcResetAndLoad ==
    /\ app' = app
    /\ \E n \in PageSizes : CallResetAndLoad(n, "service", timers)
    /\ UNCHANGED nonPageVars

\* AppComponent.ngOnInit: the two subscriptions, each emitting the current
\* value at once, then loadUsers
NgOnInit ==
    /\ app = "created"
    /\ app' = "active"
    /\ CallResetAndLoad(DefaultPageSize, "ngOnInit", OnUsers(timers, allUsers))
    /\ UNCHANGED nonPageVars

\* AppComponent.ngOnDestroy: the subscriptions end
NgOnDestroy ==
    /\ app = "active"
    /\ app' = "destroyed"
    /\ ev' = Ev("none", "ngOnDestroy", 0, 0, 0, NoErr, FALSE, FALSE, <<>>)
    /\ UNCHANGED <<allUsers, pag, inflight, sigUsers, sigPag, timers, errStop>>
    /\ UNCHANGED nonPageVars

\* AppComponent.loadMoreUsers, called by `via`
CallLoadMoreUsers(via) ==
    IF sigPag.hasMore /\ ~sigPag.loading
    THEN CallLoadNextPage(DefaultPageSize, via)
    ELSE /\ ev' = Ev("none", via, 0, 0, 0, NoErr, FALSE, FALSE, <<>>)
         /\ UNCHANGED <<allUsers, pag, inflight, sigUsers, sigPag, errStop>>

\* the "load more" trigger of the presentation layer
LoadMoreUsers ==
    /\ app = "active"
    /\ CallLoadMoreUsers("loadMoreUsers")
    /\ UNCHANGED <<app, timers>>
    /\ UNCHANGED nonPageVars

\* AppComponent.retryLoad
RetryLoad ==
    /\ app = "active"
    /\ app' = app
    /\ CallResetAndLoad(DefaultPageSize, "retryLoad", timers)
    /\ UNCHANGED nonPageVars

\* a timer set by startAutoLoading, or by the callback below, fires:
\* autoLoadUsers
TimerAuto ==
    /\ timers.auto > 0
    /\ LET currentCount == Count(sigUsers)
       IN  timers' =
             IF /\ currentCount < LowWaterMark /\ currentCount > 0
                /\ sigPag.hasMore /\ ~sigPag.loading
             THEN [timers EXCEPT !.auto = @ - 1, !.more = @ + 1]
             ELSE [timers EXCEPT !.auto = @ - 1]
    /\ ev' = Ev("none", "autoLoadUsers", 0, 0, 0, NoErr, FALSE, FALSE, <<>>)
    /\ UNCHANGED <<allUsers, pag, inflight, app, sigUsers, sigPag, errStop>>
    /\ UNCHANGED nonPageVars

\* the timer set by autoLoadUsers fires: loadMoreUsers, then a timer for the
\* next autoLoadUsers
TimerMore ==
    /\ timers.more > 0
    /\ CallLoadMoreUsers("autoLoadTimer")
    /\ timers' = [timers EXCEPT !.more = @ - 1, !.auto = @ + 1]
    /\ UNCHANGED app
    /\ UNCHANGED nonPageVars

\* what the subscribers do with a fetch's outcome r (the accumulated set and
\* the pagination state), the accumulated set being emitted when `emitted`
Deliver(i, r, emitted) ==
    LET tm1 == IF app = "active" /\ emitted THEN OnUsers(timers, r.allUsers)
               ELSE timers
    IN  /\ Pending(tm1) <= MaxTimers
        /\ allUsers' = r.allUsers
        /\ pag' = r.pag
        /\ inflight' = Without(inflight, i)
        /\ sigUsers' = IF app = "active" /\ emitted THEN r.allUsers ELSE sigUsers
        /\ sigPag' = IF app = "active" THEN r.pag ELSE sigPag
        /\ timers' = tm1
        /\ UNCHANGED app

\* the upstream answers an outstanding fetch with k records
FetchOk ==
    /\ \E i \in 1..Len(inflight) : \E k \in RespCounts(inflight[i].results) :
          LET f == inflight[i]
              r == OnResponse(allUsers, pag, f, k)
          IN  /\ Deliver(i, r, TRUE)
              /\ ev' = Ev("fetchOk", "upstream", f.page, f.results, k, NoErr,
                          FALSE, TRUE, r.allUsers)
    /\ UNCHANGED errStop
    /\ UNCHANGED nonPageVars

\* the upstream answers an outstanding fetch with an HTTP error, or with an
\* error in the response body, one of `errors`
FetchErrorFrom(errors) ==
    /\ \E i \in 1..Len(inflight) : \E e \in errors :
          LET f == inflight[i]
              r == OnResponse(allUsers, handleApiError(pag, e), f, 0)
          IN  /\ Deliver(i, r, TRUE)
              /\ ev' = Ev("fetchError", "upstream", f.page, f.results, 0, e,
                          FALSE, TRUE, r.allUsers)
    /\ errStop' = TRUE
    /\ UNCHANGED nonPageVars

FetchError == FetchErrorFrom(UpstreamErrors)

AppFetchError == FetchErrorFrom(AppUpstreamErrors)

\* the upstream answers an outstanding fetch with records that
\* User.mapFromUserResult cannot map: it throws
FetchMapError ==
    /\ \E i \in 1..Len(inflight) :
          LET f == inflight[i]
              r == [allUsers |-> allUsers, pag |-> OnMapError(pag, MapErrorText)]
          IN  /\ Deliver(i, r, FALSE)
              /\ ev' = Ev("fetchMapError", "upstream", f.page, f.results, 0,
                          [kind |-> "error", message |-> <<MapErrorText>>],
                          FALSE, TRUE, allUsers)
    /\ UNCHANGED errStop
    /\ UNCHANGED nonPageVars

-----------------------------------------------------------------------------
(* The grouping coordinator (UserGroupingService)                            *)
(*                                                                           *)
(* A record handed to the coordinator is an instance of the class User: the  *)
(* fields the engine reads, its login.uuid and its dateOfBirth.  proto is    *)
(* the object's prototype: "User" for an instance, "Object" for the plain    *)
(* data a message carries.                                                   *)

MaxReq == 2        \* groupUsers calls made on the coordinator

\* a Date of the given time value; a date kept as its ISO string; no date
DateOf(t)    == [type |-> "Date", time |-> t]
DateText(t)  == [type |-> "string", time |-> t]
NoDate       == [type |-> "undefined", time |-> 0]

\* new User({...}) as User.mapFromUserResult builds it from the pool record u
FullUser(u) ==
    [proto |-> "User", uuid |-> u.uuid, firstname |-> u.firstname,
     nat |-> u.nat, age |-> u.age, gender |-> u.gender,
     dateOfBirth |-> IF u.age = NoAge THEN NoDate ELSE DateOf(u.uuid)]

PoolUser(id) == FullUser(CHOOSE u \in UserPool : u.uuid = id)

\* the structured clone postMessage makes of a record: its own fields, a
\* Date as a Date, and no prototype
StructuredClone(user) == [user EXCEPT !.proto = "Object"]

CloneAll(users) == [i \in 1..Len(users) |-> StructuredClone(users[i])]

\* the structured clone of a GroupingResult
CloneGroups(groups) ==
    [g \in 1..Len(groups) |-> [groups[g] EXCEPT !.users = CloneAll(@)]]

\* a constructor that keeps the data it is given as it is
NewUserPlain(data) == data

\* new User(data): Object.assign(this, data), and a dateOfBirth given as a
\* string becomes a Date
NewUser(data) ==
    [data EXCEPT !.proto = "User",
                 !.dateOfBirth = IF @.type = "string" THEN DateOf(@.time) ELSE @]

\* data.groups.map(group => ({...group, users: group.users.map(userData =>
\* new User(userData))}))
Revive(groups) ==
    [g \in 1..Len(groups) |->
        [groups[g] EXCEPT !.users = [i \in 1..Len(@) |-> NewUser(@[i])]]]

\* the record lists the callers hand to the coordinator
CoordLists ==
    { <<>>,
      <<PoolUser(3), PoolUser(1), PoolUser(2)>>,
      <<PoolUser(4), PoolUser(7)>> }

CoordIdle ==
    /\ coord = [worker |-> TRUE, terminated |-> FALSE, loading |-> FALSE]
    /\ toWorker = <<>>
    /\ fromWorker = <<>>
    /\ tasks = <<>>
    /\ stream = <<>>
    /\ reqs = <<>>
    /\ cev = [op |-> "init", id |-> 0]

\* the coordinator after construction: initializeWorker has set the worker
\* where the platform has one
CoordInit ==
    /\ coord \in [worker : BOOLEAN, terminated : {FALSE}, loading : {FALSE}]
    /\ toWorker = <<>>
    /\ fromWorker = <<>>
    /\ tasks = <<>>
    /\ stream = <<>>
    /\ reqs = <<>>
    /\ cev = [op |-> "init", id |-> 0]

\* the requests issued that have neither delivered a result nor failed
Outstanding == Cardinality({i \in 1..Len(reqs) : reqs[i].status = "pending"})

\* the request id comes to the end `status`
Settle(id, status) == [reqs EXCEPT ![id].status = status]

\* a fallbackGrouping that publishes within the call
CallGroupUsersInline(users, groupBy) ==
    LET id == Len(reqs) + 1
    IN  /\ Len(reqs) < MaxReq
        /\ cev' = [op |-> "groupUsers", id |-> id]
        /\ IF ~coord.worker
           THEN /\ coord' = [coord EXCEPT !.loading = FALSE]
                /\ stream' = Append(stream,
                      [id |-> id, groups |-> performSyncGrouping(users, groupBy)])
                /\ reqs' = Append(reqs, [users |-> users, groupBy |-> groupBy,
                                         behind |-> Outstanding, status |-> "delivered"])
                /\ UNCHANGED <<toWorker, fromWorker, tasks>>
           ELSE /\ coord' = [coord EXCEPT !.loading = TRUE]
                /\ reqs' = Append(reqs, [users |-> users, groupBy |-> groupBy,
                       behind |-> Outstanding,
                       status |-> IF coord.terminated THEN "dropped" ELSE "pending"])
                /\ toWorker' = IF coord.terminated THEN toWorker
                               ELSE Append(toWorker, [id |-> id, users |-> CloneAll(users),
                                                      groupBy |-> groupBy])
                /\ UNCHANGED <<fromWorker, tasks, stream>>

\* a groupUsers whose fallback path leaves the loading flag alone
CallGroupUsersNoLoading(users, groupBy) ==
    LET id == Len(reqs) + 1
    IN  /\ Len(reqs) < MaxReq
        /\ cev' = [op |-> "groupUsers", id |-> id]
        /\ coord' = [coord EXCEPT !.loading = coord.worker \/ @]
        /\ IF ~coord.worker
           THEN /\ tasks' = Append(tasks, [id |-> id, users |-> users, groupBy |-> groupBy])
                /\ reqs' = Append(reqs, [users |-> users, groupBy |-> groupBy,
                                         behind |-> Outstanding, status |-> "pending"])
                /\ UNCHANGED <<toWorker, fromWorker, stream>>
           ELSE \* a message posted to a terminated worker is discarded
                /\ reqs' = Append(reqs, [users |-> users, groupBy |-> groupBy,
                       behind |-> Outstanding,
                       status |-> IF coord.terminated THEN "dropped" ELSE "pending"])
                /\ toWorker' = IF coord.terminated THEN toWorker
                               ELSE Append(toWorker, [id |-> id, users |-> CloneAll(users),
                                                      groupBy |-> groupBy])
                /\ UNCHANGED <<fromWorker, tasks, stream>>

\* groupUsers(users, groupBy), fallbackGrouping included up to its setTimeout
CallGroupUsers(users, groupBy) ==
    LET id == Len(reqs) + 1
    IN  /\ Len(reqs) < MaxReq
        /\ cev' = [op |-> "groupUsers", id |-> id]
        /\ coord' = [coord EXCEPT !.loading = TRUE]
        /\ IF ~coord.worker
           THEN /\ tasks' = Append(tasks, [id |-> id, users |-> users, groupBy |-> groupBy])
                /\ reqs' = Append(reqs, [users |-> users, groupBy |-> groupBy,
                                         behind |-> Outstanding, status |-> "pending"])
                /\ UNCHANGED <<toWorker, fromWorker, stream>>
           ELSE \* a message posted to a terminated worker is discarded
                /\ reqs' = Append(reqs, [users |-> users, groupBy |-> groupBy,
                       behind |-> Outstanding,
                       status |-> IF coord.terminated THEN "dropped" ELSE "pending"])
                /\ toWorker' = IF coord.terminated THEN toWorker
                               ELSE Append(toWorker, [id |-> id, users |-> CloneAll(users),
                                                      groupBy |-> groupBy])
                /\ UNCHANGED <<fromWorker, tasks, stream>>

\* a caller of groupUsers
GroupUsers ==
    /\ \E users \in CoordLists : \E groupBy \in Criteria : CallGroupUsers(users, groupBy)
    /\ UNCHANGED nonCoordVars

\* the worker's message handler runs on the oldest message and posts its result
WorkerHandle ==
    /\ toWorker # <<>>
    /\ LET m == Head(toWorker)
           result == workerGroupUsers(m.users, m.groupBy)
       IN  fromWorker' = Append(fromWorker,
               [kind |-> "message", id |-> m.id, groups |-> CloneGroups(result.groups)])
    /\ toWorker' = Tail(toWorker)
    /\ cev' = [op |-> "workerHandle", id |-> Head(toWorker).id]
    /\ UNCHANGED <<coord, tasks, stream, reqs>>
    /\ UNCHANGED nonCoordVars

\* the worker raises an error while it handles the oldest message
WorkerThrow ==
    /\ toWorker # <<>>
    /\ fromWorker' = Append(fromWorker,
           [kind |-> "error", id |-> Head(toWorker).id, groups |-> <<>>])
    /\ toWorker' = Tail(toWorker)
    /\ cev' = [op |-> "workerThrow", id |-> Head(toWorker).id]
    /\ UNCHANGED <<coord, tasks, stream, reqs>>
    /\ UNCHANGED nonCoordVars

\* a handler that forgets the loading flag
OnMessageKeepsLoading ==
    /\ fromWorker # <<>> /\ Head(fromWorker).kind = "message"
    /\ LET e == Head(fromWorker)
       IN  /\ stream' = Append(stream, [id |-> e.id, groups |-> Revive(e.groups)])
           /\ reqs' = Settle(e.id, "delivered")
           /\ cev' = [op |-> "onmessage", id |-> e.id]
    /\ fromWorker' = Tail(fromWorker)
    /\ UNCHANGED <<coord, toWorker, tasks>>
    /\ UNCHANGED nonCoordVars

\* a handler that is run on the newest message of the worker first
OnMessageNewestFirst ==
    /\ fromWorker # <<>> /\ fromWorker[Len(fromWorker)].kind = "message"
    /\ LET e == fromWorker[Len(fromWorker)]
       IN  /\ stream' = Append(stream, [id |-> e.id, groups |-> Revive(e.groups)])
           /\ reqs' = Settle(e.id, "delivered")
           /\ cev' = [op |-> "onmessage", id |-> e.id]
    /\ coord' = [coord EXCEPT !.loading = FALSE]
    /\ fromWorker' = SubSeq(fromWorker, 1, Len(fromWorker) - 1)
    /\ UNCHANGED <<toWorker, tasks>>
    /\ UNCHANGED nonCoordVars

\* worker.onmessage
OnMessage ==
    /\ fromWorker # <<>> /\ Head(fromWorker).kind = "message"
    /\ LET e == Head(fromWorker)
       IN  /\ stream' = Append(stream, [id |-> e.id, groups |-> Revive(e.groups)])
           /\ reqs' = Settle(e.id, "delivered")
           /\ cev' = [op |-> "onmessage", id |-> e.id]
    /\ coord' = [coord EXCEPT !.loading = FALSE]
    /\ fromWorker' = Tail(fromWorker)
    /\ UNCHANGED <<toWorker, tasks>>
    /\ UNCHANGED nonCoordVars

\* an error handler that publishes an empty grouping
OnErrorPublishesEmpty ==
    /\ fromWorker # <<>> /\ Head(fromWorker).kind = "error"
    /\ LET e == Head(fromWorker)
       IN  /\ stream' = Append(stream, [id |-> e.id, groups |-> <<>>])
           /\ reqs' = Settle(e.id, "failed")
           /\ cev' = [op |-> "onerror", id |-> e.id]
    /\ coord' = [coord EXCEPT !.loading = FALSE]
    /\ fromWorker' = Tail(fromWorker)
    /\ UNCHANGED <<toWorker, tasks>>
    /\ UNCHANGED nonCoordVars

\* worker.onerror
OnError ==
    /\ fromWorker # <<>> /\ Head(fromWorker).kind = "error"
    /\ LET e == Head(fromWorker)
       IN  /\ reqs' = Settle(e.id, "failed")
           /\ cev' = [op |-> "onerror", id |-> e.id]
    /\ coord' = [coord EXCEPT !.loading = FALSE]
    /\ fromWorker' = Tail(fromWorker)
    /\ UNCHANGED <<toWorker, tasks, stream>>
    /\ UNCHANGED nonCoordVars

\* the callback fallbackGrouping handed to setTimeout runs
FallbackTick ==
    /\ tasks # <<>>
    /\ LET t == Head(tasks)
       IN  /\ stream' = Append(stream,
                   [id |-> t.id, groups |-> performSyncGrouping(t.users, t.groupBy)])
           /\ reqs' = Settle(t.id, "delivered")
           /\ cev' = [op |-> "fallbackTick", id |-> t.id]
    /\ coord' = [coord EXCEPT !.loading = FALSE]
    /\ tasks' = Tail(tasks)
    /\ UNCHANGED <<toWorker, fromWorker>>
    /\ UNCHANGED nonCoordVars

\* UserGroupingService.ngOnDestroy: worker.terminate() discards what the
\* worker has not handled and what it has not yet delivered
CoordDestroy ==
    /\ ~coord.terminated
    /\ coord' = [coord EXCEPT !.terminated = TRUE]
    /\ toWorker' = IF coord.worker THEN <<>> ELSE toWorker
    /\ fromWorker' = IF coord.worker THEN <<>> ELSE fromWorker
    /\ reqs' = [i \in 1..Len(reqs) |->
                  IF coord.worker /\ reqs[i].status = "pending"
                  THEN [reqs[i] EXCEPT !.status = "dropped"] ELSE reqs[i]]
    /\ cev' = [op |-> "ngOnDestroy", id |-> 0]
    /\ UNCHANGED <<tasks, stream>>
    /\ UNCHANGED nonCoordVars

-----------------------------------------------------------------------------
(* Searching (UsersService.searchUsers)                                      *)

MaxSearchLen == 2  \* longest accumulated record set that is searched

\* a record with the seven fields searchUsers reads
SearchUser(id, first, last, email, phone, nat, country, city) ==
    [uuid |-> id, firstname |-> first, lastname |-> last, email |-> email,
     phone |-> phone, nat |-> nat, country |-> country, city |-> city]

SearchPool ==
    { SearchUser(1, <<"A", "l">>, <<"B", "o">>, <<"a", "@", "x">>, <<"1", "2">>,
                 <<"D", "E">>, <<"G", "e">>, <<"U", "l", "m">>),
      SearchUser(2, <<"B", "o">>, <<"L", "i">>, <<"b", "@", "x">>, <<"3", "4">>,
                 <<"U", "S">>, <<"U", "s">>, <<"R", "y", "e">>),
      SearchUser(3, Undef, Undef, Undef, <<"X", "5">>, Undef, Undef, Undef),
      SearchUser(4, Undef, Undef, Undef, Undef, Undef, Undef, Undef) }

\* the accumulated record sets: up to MaxSearchLen distinct records of the pool
SearchLists ==
    UNION { { l \in [1..n -> SearchPool] : \A i, j \in 1..n : i # j => l[i] # l[j] }
            : n \in 0..MaxSearchLen }

\* the terms searched for
SearchTerms ==
    { <<>>, <<" ">>, <<"a", "l">>, <<"A", "L">>, <<"3", "4">>, <<"x", "5">>,
      <<"d", "e">>, <<"z", "z">> }

\* !s.trim(): the string is empty or holds whitespace only
IsBlank(s) == \A i \in 1..Len(s) : s[i] = " "

\* s.includes(t)
StrIncludes(s, t) ==
    \E i \in 0..(Len(s) - Len(t)) : SubSeq(s, i + 1, i + Len(t)) = t

\* field?.toLowerCase().includes(term)
LowerIncludes(field, term) ==
    field # Undef /\ StrIncludes(toLowerCase(field), term)

\* field?.includes(term)
PlainIncludes(field, term) ==
    field # Undef /\ StrIncludes(field, term)

\* the predicate of users.filter(...), term being searchTerm.toLowerCase()
SearchHit(user, term) ==
    \/ LowerIncludes(user.firstname, term)
    \/ LowerIncludes(user.lastname, term)
    \/ LowerIncludes(user.email, term)
    \/ PlainIncludes(user.phone, term)
    \/ LowerIncludes(user.nat, term)
    \/ LowerIncludes(user.country, term)
    \/ LowerIncludes(user.city, term)

\* the map of searchUsers(searchTerm), run on the accumulated set users
searchUsers(users, searchTerm) ==
    IF IsBlank(searchTerm) THEN users
    ELSE LET term == toLowerCase(searchTerm)
             Hit(user) == SearchHit(user, term)
         IN  SelectSeq(users, Hit)

SearchIdle ==
    /\ records = <<>>
    /\ query = <<>>
    /\ found = [done |-> FALSE, users |-> <<>>]

\* searchUsers(query) is subscribed to: allUsers$ emits its current value
RunSearch ==
    /\ ~found.done
    /\ found' = [done |-> TRUE, users |-> searchUsers(records, query)]
    /\ UNCHANGED <<records, query>>
    /\ UNCHANGED nonSearchVars

-----------------------------------------------------------------------------
(* The list component (UserListComponent)                                    *)
(*                                                                           *)
(* Under SpecList the accumulated record set of UsersService is `records`,   *)
(* a prefix of Feed that the service emits anew; of the coordinator the      *)
(* model keeps the request it was handed last, `asked`, and every operation  *)
(* records in `lev` the requests it made, in order.                          *)

MaxSubs == 2       \* live subscriptions to searchUsers(term)

DebounceTime == 300

\* the records the upstream serves, in order
Feed ==
    << SearchUser(1, <<"A", "l">>, <<"B", "o">>, <<"a", "@", "x">>, <<"1", "2">>,
                  <<"D", "E">>, <<"G", "e">>, <<"U", "l", "m">>)
           @@ [age |-> 17, gender |-> <<"m", "a", "l", "e">>],
       SearchUser(2, <<"B", "o">>, <<"L", "i">>, <<"b", "@", "x">>, <<"3", "4">>,
                  <<"U", "S">>, <<"U", "s">>, <<"R", "y", "e">>)
           @@ [age |-> 65, gender |-> <<"f", "e", "m", "a", "l", "e">>] >>

\* the accumulated record sets the service emits
FeedSets == {SubSeq(Feed, 1, k) : k \in 0..Len(Feed)}

\* what the user types into the search box
ListTerms == { <<>>, <<"a", "l">>, <<"b", "o">> }

\* the criteria the user picks
ListCriteria == {"alphabetical", "nationality"}

\* the times left of a window that the model tells apart
TimesLeft == {0, 1, DebounceTime}

NoEmission == [has |-> FALSE, value |-> <<>>]
NoValue    == [pending |-> FALSE, value |-> <<>>, left |-> 0, inputs |-> 0]

\* the record of an operation: the value it carried, the number of inputs its
\* window held back, whether the subscriber ran, and the grouping requests made
Lev(op, term, inputs, updated, issued) ==
    [op |-> op, term |-> term, inputs |-> inputs, updated |-> updated,
     issued |-> issued]

\* a request handed to userGroupingService.groupUsers
Request(users, groupBy) == [users |-> users, groupBy |-> groupBy]

NoRequest == [users |-> <<>>, groupBy |-> "none"]

\* expandedUser = signal<string | null>(null): no record is expanded
Null == <<"<null>">>

\* the identifiers toggleUserExpansion is called with: those of the records
\* of Feed, and '' for a record without one
UserIds == { <<"1">>, <<"2">>, <<>> }

\* the request the coordinator was handed last, after the requests issued
LastOf(last, issued) == IF issued = <<>> THEN last ELSE issued[Len(issued)]

ListIdle ==
    /\ lc = [state |-> "created", users |-> <<>>, searchTerm |-> <<>>,
             filteredUsers |-> <<>>, showGrouped |-> TRUE,
             currentGrouping |-> "alphabetical", previousUsersLength |-> 0,
             expandedUser |-> Null]
    /\ deb = NoValue
    /\ lastOut = NoEmission
    /\ subs = <<>>
    /\ asked = NoRequest
    /\ lev = Lev("init", <<>>, 0, FALSE, <<>>)

\* the groupedUsers signal once the coordinator has answered every request:
\* the grouping$ subscription sets it on each result, results come in issue
\* order, and so it holds the grouping of the request handed over last
groupedUsers ==
    IF asked = NoRequest THEN <<>>
    ELSE performSyncGrouping(asked.users, asked.groupBy)

\* UserListComponent.groupUsers() in the component state c: the request made
groupUsersOf(c) ==
    Request(IF c.searchTerm # <<>> THEN c.filteredUsers ELSE c.users,
            c.currentGrouping)

\* ngDoCheck in the component state c: the state it leaves and the requests
\* it makes
ngDoCheck(c) ==
    LET currentUsersLength == Len(c.users)
        c1 == [c EXCEPT !.previousUsersLength = currentUsersLength]
    IN  IF currentUsersLength # c.previousUsersLength
        THEN [lc |-> c1,
              issued |-> IF c.searchTerm = <<>> /\ currentUsersLength > 0
                         THEN <<groupUsersOf(c1)>> ELSE <<>>]
        ELSE [lc |-> c, issued |-> <<>>]

\* the subscriber of searchUsers(term) on an emission of the accumulated set
\* all, in the component state c
OnFiltered(c, all, term) ==
    LET filtered == searchUsers(all, term)
    IN  [lc |-> [c EXCEPT !.filteredUsers = filtered],
         issued |-> IF c.showGrouped
                    THEN <<Request(filtered, c.currentGrouping)>> ELSE <<>>]

\* a subscriber of searchUsers(term) that asks for a grouping whatever the view
OnFilteredAlways(c, all, term) ==
    LET filtered == searchUsers(all, term)
    IN  [lc |-> [c EXCEPT !.filteredUsers = filtered],
         issued |-> <<Request(filtered, c.currentGrouping)>>]

RECURSIVE OnFilteredAll(_, _, _)
\* the live subscribers of searchUsers, in the order they subscribed
OnFilteredAll(r, all, terms) ==
    IF terms = <<>> THEN r
    ELSE LET one == OnFiltered(r.lc, all, Head(terms))
         IN  OnFilteredAll([lc |-> one.lc, issued |-> r.issued \o one.issued],
                           all, Tail(terms))

\* performSearch(term) in the component state c
performSearch(c, term) ==
    IF IsBlank(term)
    THEN LET c1 == [c EXCEPT !.filteredUsers = c.users]
         IN  [lc |-> c1, issued |-> <<groupUsersOf(c1)>>, subscribed |-> FALSE]
    ELSE LET one == OnFiltered(c, records, term)
         IN  [lc |-> one.lc, issued |-> one.issued, subscribed |-> TRUE]

\* ngOnInit, on the first change detection of the component: the users input
\* is set, the three subscriptions are made, and ngDoCheck runs
ListInit ==
    /\ lc.state = "created"
    /\ LET c0 == [lc EXCEPT !.state = "active", !.users = records]
           c1 == [c0 EXCEPT !.filteredUsers = c0.users]
           first == groupUsersOf(c1)
           check == ngDoCheck(c1)
       IN  /\ lc' = check.lc
           /\ asked' = LastOf(first, check.issued)
           /\ lev' = Lev("ngOnInit", <<>>, 0, FALSE, <<first>> \o check.issued)
    /\ UNCHANGED <<deb, lastOut, subs>>
    /\ UNCHANGED <<records, query, found>>
    /\ UNCHANGED nonListVars

\* onSearchInput: searchSubject.next(value); debounceTime holds the value back
\* and starts its window anew
SearchInput ==
    /\ lc.state = "active"
    /\ \E term \in ListTerms :
          /\ deb' = [pending |-> TRUE, value |-> term, left |-> DebounceTime,
                     inputs |-> IF deb.pending THEN 2 ELSE 1]
          /\ lev' = Lev("searchInput", term, 0, FALSE, <<>>)
    /\ UNCHANGED <<lc, lastOut, subs, asked>>
    /\ UNCHANGED <<records, query, found>>
    /\ UNCHANGED nonListVars

\* time passes within the window
Tick ==
    /\ deb.pending /\ deb.left > 0
    /\ \E left \in TimesLeft : left < deb.left /\ deb' = [deb EXCEPT !.left = left]
    /\ lev' = Lev("tick", <<>>, 0, FALSE, <<>>)
    /\ UNCHANGED <<lc, lastOut, subs, asked>>
    /\ UNCHANGED <<records, query, found>>
    /\ UNCHANGED nonListVars

\* a debounce that lets a value through as soon as it has one
DebounceDueAtOnce == deb.pending

\* debounceTime(300): the window of the value held back has passed
DebounceDue == deb.pending /\ deb.left = 0

\* a distinctUntilChanged that lets every value through
IsRepeatNever(value) == FALSE

\* distinctUntilChanged(): the value is the one let through last
IsRepeat(value) == lastOut.has /\ lastOut.value = value

\* the window has passed: debounceTime emits the value, distinctUntilChanged
\* lets it through unless it repeats the last one, and the subscriber sets
\* searchTerm and runs performSearch
DebounceFire ==
    /\ lc.state = "active"
    /\ DebounceDue
    /\ deb' = NoValue
    /\ IF IsRepeat(deb.value)
       THEN /\ lev' = Lev("debounceFire", deb.value, deb.inputs, FALSE, <<>>)
            /\ UNCHANGED <<lc, lastOut, subs, asked>>
       ELSE LET r == performSearch([lc EXCEPT !.searchTerm = deb.value], deb.value)
            IN  /\ r.subscribed => Len(subs) < MaxSubs
                /\ lastOut' = [has |-> TRUE, value |-> deb.value]
                /\ lc' = r.lc
                /\ subs' = IF r.subscribed THEN Append(subs, deb.value) ELSE subs
                /\ asked' = LastOf(asked, r.issued)
                /\ lev' = Lev("debounceFire", deb.value, deb.inputs, TRUE, r.issued)
    /\ UNCHANGED <<records, query, found>>
    /\ UNCHANGED nonListVars

\* allUsersSubject.next(...): the service emits another accumulated set, and
\* every live subscriber of searchUsers runs on it (what the service emits
\* after the component is destroyed reaches nothing of it, and is left out)
ServiceEmit ==
    /\ lc.state # "destroyed"
    /\ \E all \in FeedSets :
          /\ all # records
          /\ records' = all
          /\ LET r == OnFilteredAll([lc |-> lc, issued |-> <<>>], all, subs)
             IN  /\ lc' = r.lc
                 /\ asked' = LastOf(asked, r.issued)
                 /\ lev' = Lev("serviceEmit", <<>>, 0, FALSE, r.issued)
    /\ UNCHANGED <<deb, lastOut, subs>>
    /\ UNCHANGED <<query, found>>
    /\ UNCHANGED nonListVars

\* a change detection of the parent: the users input takes the parent's
\* users, and ngDoCheck runs
ChangeDetect ==
    /\ lc.state = "active"
    /\ lc.users # records \/ Len(lc.users) # lc.previousUsersLength
    /\ LET r == ngDoCheck([lc EXCEPT !.users = records])
       IN  /\ lc' = r.lc
           /\ asked' = LastOf(asked, r.issued)
           /\ lev' = Lev("ngDoCheck", <<>>, 0, FALSE, r.issued)
    /\ UNCHANGED <<deb, lastOut, subs>>
    /\ UNCHANGED <<records, query, found>>
    /\ UNCHANGED nonListVars

\* changeGrouping(criteria)
ChangeGrouping ==
    /\ lc.state = "active"
    /\ \E criteria \in ListCriteria :
          LET c1 == [lc EXCEPT !.currentGrouping = criteria]
          IN  /\ lc' = c1
              /\ asked' = groupUsersOf(c1)
              /\ lev' = Lev("changeGrouping", <<>>, 0, FALSE, <<groupUsersOf(c1)>>)
    /\ UNCHANGED <<deb, lastOut, subs>>
    /\ UNCHANGED <<records, query, found>>
    /\ UNCHANGED nonListVars

\* toggleGroupView()
ToggleGroupView ==
    /\ lc.state = "active"
    /\ lc' = [lc EXCEPT !.showGrouped = ~@]
    /\ lev' = Lev("toggleGroupView", <<>>, 0, FALSE, <<>>)
    /\ UNCHANGED <<deb, lastOut, subs, asked>>
    /\ UNCHANGED <<records, query, found>>
    /\ UNCHANGED nonListVars

\* an expansion toggle that never collapses: expandedUser.set(userId)
ToggleUserExpansionSet ==
    /\ lc.state = "active"
    /\ \E userId \in UserIds :
          /\ lc' = [lc EXCEPT !.expandedUser = userId]
          /\ lev' = Lev("toggleUserExpansion", userId, 0, FALSE, <<>>)
    /\ UNCHANGED <<deb, lastOut, subs, asked>>
    /\ UNCHANGED <<records, query, found>>
    /\ UNCHANGED nonListVars

\* toggleUserExpansion(userId)
ToggleUserExpansion ==
    /\ lc.state = "active"
    /\ \E userId \in UserIds :
          /\ lc' = [lc EXCEPT !.expandedUser = IF @ = userId THEN Null ELSE userId]
          /\ lev' = Lev("toggleUserExpansion", userId, 0, FALSE, <<>>)
    /\ UNCHANGED <<deb, lastOut, subs, asked>>
    /\ UNCHANGED <<records, query, found>>
    /\ UNCHANGED nonListVars

\* ngOnDestroy: destroy$ ends every subscription, the debounce timer with them
ListDestroy ==
    /\ lc.state = "active"
    /\ lc' = [lc EXCEPT !.state = "destroyed"]
    /\ deb' = NoValue
    /\ subs' = <<>>
    /\ lev' = Lev("ngOnDestroy", <<>>, 0, FALSE, <<>>)
    /\ UNCHANGED <<lastOut, asked>>
    /\ UNCHANGED <<records, query, found>>
    /\ UNCHANGED nonListVars

-----------------------------------------------------------------------------
(* Specifications *)

GroupIdle ==
    /\ gUsers = <<>>
    /\ gBy = "alphabetical"
    /\ gSync = NotRun
    /\ gWorker = NotRun

PageInit ==
    /\ allUsers = <<>>
    /\ pag = [page |-> 1, results |-> DefaultPageSize, hasMore |-> TRUE,
              loading |-> FALSE, error |-> NoError]
    /\ inflight = <<>>
    /\ app = "created"
    /\ sigUsers = <<>>
    /\ sigPag = [page |-> 1, results |-> DefaultPageSize, hasMore |-> FALSE,
                 loading |-> FALSE, error |-> NoError]
    /\ timers = NoTimers
    /\ ev = Ev("init", "init", 0, 0, 0, NoErr, FALSE, FALSE, <<>>)
    /\ errStop = FALSE

Init == GroupIdle /\ PageInit /\ CoordIdle /\ SearchIdle /\ ListIdle

\* the pagination controller under any caller of its public operations
Next ==
    \/ SvcLoadNextPage
    \/ SvcResetAndLoad
    \/ FetchOk
    \/ FetchError
    \/ FetchMapError

Spec == Init /\ [][Next]_vars

\* the upstream answers every fetch it is sent: with records, with an error,
\* or with a response that cannot be mapped
FairSpec == Spec /\ WF_vars(FetchOk \/ FetchError \/ FetchMapError)

\* the pagination controller under the composition root
NextApp ==
    \/ NgOnInit
    \/ RetryLoad
    \/ NgOnDestroy
    \/ LoadMoreUsers
    \/ SvcResetAndLoad
    \/ TimerAuto
    \/ TimerMore
    \/ FetchOk
    \/ AppFetchError
    \/ FetchMapError

SpecApp == Init /\ [][NextApp]_vars

\* the event loop runs every timer that is due, and the upstream answers
FairApp ==
    /\ SpecApp
    /\ WF_vars(TimerAuto)
    /\ WF_vars(TimerMore)
    /\ WF_vars(FetchOk \/ AppFetchError \/ FetchMapError)

InitGroup ==
    /\ gUsers \in RecordLists
    /\ gBy \in AnyCriteria
    /\ gSync = NotRun
    /\ gWorker = NotRun
    /\ PageInit
    /\ CoordIdle
    /\ SearchIdle
    /\ ListIdle

NextGroup == RunSync \/ RunWorker

SpecGroup == InitGroup /\ [][NextGroup]_vars

\* the grouping engine run by age on one record of every age, or of none
InitAge ==
    /\ \E a \in Ages \cup {NoAge} :
          gUsers = <<MkUser(1, <<"A", "l">>, <<"D", "E">>, a, <<"m", "a", "l", "e">>)>>
    /\ gBy = "age"
    /\ gSync = NotRun
    /\ gWorker = NotRun
    /\ PageInit
    /\ CoordIdle
    /\ SearchIdle
    /\ ListIdle

SpecAge == InitAge /\ [][NextGroup]_vars

\* the grouping engine on the record lists, the five-record scenario and the
\* records of every age, under every criterion
InitEngine ==
    /\ gUsers \in RecordLists \cup ScenarioLists \cup AgeLists
    /\ gBy \in AnyCriteria
    /\ gSync = NotRun
    /\ gWorker = NotRun
    /\ PageInit
    /\ CoordIdle
    /\ SearchIdle
    /\ ListIdle

SpecEngine == InitEngine /\ [][NextGroup]_vars

\* searchUsers run once on an accumulated set and a term
InitSearch ==
    /\ GroupIdle /\ PageInit /\ CoordIdle /\ ListIdle
    /\ records \in SearchLists
    /\ query \in SearchTerms
    /\ found = [done |-> FALSE, users |-> <<>>]

NextSearch == RunSearch

SpecSearch == InitSearch /\ [][NextSearch]_vars

InitList == GroupIdle /\ PageInit /\ CoordIdle /\ SearchIdle /\ ListIdle

\* the list component under its user, its parent and the two services
NextList ==
    \/ ListInit
    \/ SearchInput
    \/ Tick
    \/ DebounceFire
    \/ ServiceEmit
    \/ ChangeDetect
    \/ ChangeGrouping
    \/ ToggleGroupView
    \/ ListDestroy

SpecList == InitList /\ [][NextList]_vars

\* the list component under a user who looks at the records and never types:
\* the record set arrives, the view is switched and records are expanded
NextView ==
    \/ ListInit
    \/ ServiceEmit
    \/ ChangeDetect
    \/ ChangeGrouping
    \/ ToggleGroupView
    \/ ToggleUserExpansion
    \/ ListDestroy

SpecView == InitList /\ [][NextView]_vars

InitCoord == GroupIdle /\ PageInit /\ CoordInit /\ SearchIdle /\ ListIdle

\* the grouping coordinator under any caller, on either backend
NextCoord ==
    \/ GroupUsers
    \/ WorkerHandle
    \/ WorkerThrow
    \/ OnMessage
    \/ OnError
    \/ FallbackTick
    \/ CoordDestroy

SpecCoord == InitCoord /\ [][NextCoord]_vars

\* the event loop runs every event and callback that is due, and the worker
\* ends the handling of every message, with a result or with an error.  The
\* last conjunct is WF_vars(FallbackTick), with ENABLED <<FallbackTick>>_vars
\* written as the state predicate it equals, tasks # <<>>.
FairCoord ==
    /\ SpecCoord
    /\ WF_vars(WorkerThrow \/ WorkerHandle)
    /\ WF_vars(OnMessage)
    /\ WF_vars(OnError)
    /\ ([]<>(tasks = <<>>) \/ []<><<FallbackTick>>_vars)


-----------------------------------------------------------------------------
(* Properties of the grouping engine (SpecGroup) *)

RECURSIVE SumCounts(_)
SumCounts(groups) ==
    IF groups = <<>> THEN 0 ELSE Head(groups).count + SumCounts(Tail(groups))

\* the places (group, position) at which the record u is a member
PlacesOf(u, groups) ==
    { pos \in UNION { {g} \X (1..Len(groups[g].users)) : g \in 1..Len(groups) } :
        groups[pos[1]].users[pos[2]] = u }

IsPartition(R, groups) ==
    /\ \A g \in 1..Len(groups) : groups[g].count = Len(groups[g].users)
    /\ SumCounts(groups) = Len(R)
    /\ \A i \in 1..Len(R) : Cardinality(PlacesOf(R[i], groups)) = 1

\* C1: the groups either engine produces are a partition of the record list:
\* every record is a member of exactly one group, once; each group's count is
\* the length of its member list; the counts sum to the length of the list.
C1_Partition ==
    /\ gSync.done => IsPartition(gUsers, gSync.groups)
    /\ gWorker.done => IsPartition(gUsers, gWorker.groups)

\* three records, two of them sharing a group, grouped by both engines
C1_Witness ==
    /\ gSync.done /\ gWorker.done
    /\ Len(gUsers) >= 3
    /\ Len(gSync.groups) = 2
    /\ \E g \in 1..2 : gSync.groups[g].count = 2

IsOrdered(groups) ==
    /\ \A i, j \in 1..Len(groups) : i # j => groups[i].key # groups[j].key
    /\ \A i \in 1..Len(groups) : groups[i].key = Unknown => i = Len(groups)
    /\ \A i, j \in 1..Len(groups) :
          i < j /\ groups[j].key # Unknown =>
              localeCompare(groups[i].key, groups[j].key) < 0

\* C2: in the group list either engine returns, no two groups share a key, a
\* group keyed "Unknown" is the last one, and the other groups are in strictly
\* ascending order of their keys (the order of localeCompare).
C2_Ordered ==
    /\ gSync.done => IsOrdered(gSync.groups)
    /\ gWorker.done => IsOrdered(gWorker.groups)

\* a result of three groups whose last is "Unknown", with a key before it that
\* compares greater than "Unknown"
C2_Witness ==
    /\ gSync.done /\ gWorker.done
    /\ Len(gSync.groups) >= 3
    /\ gSync.groups[Len(gSync.groups)].key = Unknown
    /\ \E i \in 1..Len(gSync.groups) - 1 :
          localeCompare(gSync.groups[i].key, Unknown) > 0

-----------------------------------------------------------------------------
(* Properties of the pagination controller (Spec, SpecApp) *)

\* C3: at most one page fetch is outstanding at any moment.
C3_AtMostOneFetch == Len(inflight) <= 1

\* C4: once a fetch error has set hasMore to false, hasMore is false in every
\* later state until resetAndLoad is called.
C4_StoppedUntilReset == errStop => ~pag.hasMore

\* C5: loadNextPage called while loading is true or hasMore is false starts no
\* fetch, leaves the pagination state and the accumulated set unchanged, and
\* returns the current accumulated set.
C5_GuardedCallIsNoOp ==
    [][ (ev'.op = "loadNextPage" /\ (pag.loading \/ ~pag.hasMore)) =>
          /\ inflight' = inflight
          /\ pag' = pag
          /\ allUsers' = allUsers
          /\ ev'.emits /\ ev'.ret = allUsers ]_vars

\* C6: when a fetch for page p of size n succeeds with k records, the
\* accumulated set becomes those k records if p = 1 and else the previous set
\* followed by them, the page counter becomes p + 1, loading becomes false, and
\* hasMore becomes true exactly when k = n.
C6_SuccessUpdate ==
    [][ ev'.op = "fetchOk" =>
          LET f == [page |-> ev'.page, results |-> ev'.n]
              got == Chunk(ev'.page, ev'.n, ev'.k)
          IN  /\ \E i \in 1..Len(inflight) :
                    inflight[i] = f /\ inflight' = Without(inflight, i)
              /\ allUsers' = IF f.page = 1 THEN got ELSE allUsers \o got
              /\ pag'.page = f.page + 1
              /\ ~pag'.loading
              /\ pag'.hasMore <=> (ev'.k = ev'.n) ]_vars

\* a second page answered with a short page has been appended to the first
C6_Witness ==
    /\ ev.op = "fetchOk" /\ ev.page = 2
    /\ ev.k > 0 /\ ev.k < ev.n
    /\ Len(allUsers) = 2
    /\ ~pag.hasMore

\* C7: every upstream failure of a page fetch, a response whose records cannot
\* be mapped included, leaves hasMore false, loading false and an error message.
C7_FailureStops ==
    ev.op \in {"fetchError", "fetchMapError"} =>
        ~pag.hasMore /\ ~pag.loading /\ pag.error # NoError

\* C8: a failed page fetch does not change the accumulated record set.
C8_FailureKeepsRecords ==
    [][ ev'.op \in {"fetchError", "fetchMapError"} => allUsers' = allUsers ]_vars

\* the rate-limit signals: HTTP status 429, or an error in the response body
\* whose message holds a marker
RateLimitSignal(e) ==
    \/ e.kind = "http" /\ e.status = 429
    \/ e.kind = "error" /\ (Includes(e.message, "ease up") \/ Includes(e.message, "bandwidth"))

\* the messages that name the rate limit and tell the user to wait and retry
RateLimitMessages ==
    {RateLimit429Message, RateLimitBodyMessage, RateLimitSessionMessage}

C10_ResetAndLoad ==
    [][ ev'.op = "resetAndLoad" =>
          /\ allUsers' = <<>>
          /\ pag' = [page |-> 1, results |-> ev'.n, hasMore |-> TRUE,
                     loading |-> TRUE, error |-> NoError]
          /\ inflight' = Append(inflight, [page |-> 1, results |-> ev'.n]) ]_vars

\* resetAndLoad has been called while a load was in progress
C10_Witness ==
    /\ ev.op = "resetAndLoad"
    /\ Len(inflight) = 2
    /\ allUsers = <<>>
    /\ pag.loading

-----------------------------------------------------------------------------
(* Properties of the grouping coordinator (SpecCoord, FairCoord) *)

\* the results published for the request id
ResultsOf(id) == {i \in 1..Len(stream) : stream[i].id = id}

\* what has become of the request id
StatusOf(id) == IF id <= Len(reqs) THEN reqs[id].status ELSE "none"

\* C11: every call of groupUsers, on either backend, leaves the loading flag
\* true when it returns, and no result for that call has been published then.
C11_LoadingOnCall ==
    [][ cev'.op = "groupUsers" =>
          /\ coord'.loading
          /\ \A i \in 1..Len(stream') : stream'[i].id # cev'.id ]_vars

\* a second call on the fallback backend, made after the first has delivered
\* its result and set loading to false
C11_Witness ==
    /\ ~coord.worker
    /\ cev.op = "groupUsers" /\ cev.id = 2
    /\ reqs[1].status = "delivered"
    /\ coord.loading

\* the places where the request id waits for its backend
WaitsIn(queue, id) == {i \in 1..Len(queue) : queue[i].id = id}

Waiting(id) ==
    Cardinality(WaitsIn(toWorker, id)) + Cardinality(WaitsIn(fromWorker, id))
        + Cardinality(WaitsIn(tasks, id))

\* C12: a request has at most one result on the stream, and exactly one once
\* it is delivered; a delivery leaves loading false; a request that is
\* outstanding waits at exactly one place, whose handler can run, whatever
\* other requests were issued before or after it; and it leaves that place
\* only by the delivery of its result, by an error of the worker or by the
\* teardown of the coordinator; and every outstanding request does come to
\* its end.
C12_OneResultEach ==
    /\ [](\A id \in 1..Len(reqs) :
             /\ Cardinality(ResultsOf(id)) <= 1
             /\ reqs[id].status = "delivered" <=> ResultsOf(id) # {}
             /\ Waiting(id) = IF reqs[id].status = "pending" THEN 1 ELSE 0)
    /\ [][ stream' # stream =>
             /\ Len(stream') = Len(stream) + 1
             /\ ~coord'.loading ]_vars
    /\ [][ \A id \in 1..Len(reqs) :
             reqs'[id].status # reqs[id].status =>
                 /\ reqs[id].status = "pending"
                 /\ \/ reqs'[id].status = "delivered"
                       /\ cev' \in {[op |-> "onmessage", id |-> id],
                                    [op |-> "fallbackTick", id |-> id]}
                       /\ stream' = Append(stream, stream'[Len(stream')])
                       /\ stream'[Len(stream')].id = id
                    \/ reqs'[id].status = "failed"
                       /\ cev' = [op |-> "onerror", id |-> id]
                    \/ reqs'[id].status = "dropped"
                       /\ cev'.op = "ngOnDestroy" ]_vars
    /\ \A id \in 1..MaxReq :
          (StatusOf(id) = "pending")
              ~> (StatusOf(id) \in {"delivered", "failed", "dropped"})

\* two requests on the worker backend, the second issued while the first was
\* in flight, have both delivered their results
C12_Witness ==
    /\ coord.worker
    /\ Len(reqs) = 2 /\ reqs[2].behind = 1
    /\ reqs[1].status = "delivered" /\ reqs[2].status = "delivered"
    /\ Len(stream) = 2
    /\ ~coord.loading

\* C13: when the worker raises an error on a request, the coordinator sets
\* loading to false and publishes nothing: the stream, and with it the
\* grouping published last, is as it was.
C13_WorkerError ==
    [][ cev'.op = "onerror" =>
          /\ ~coord'.loading
          /\ stream' = stream
          /\ ResultsOf(cev'.id) = {} ]_vars

\* the second request failed after the first had delivered its grouping
C13_Witness ==
    /\ cev.op = "onerror" /\ cev.id = 2
    /\ reqs[2].status = "failed"
    /\ Len(stream) = 1 /\ stream[1].id = 1
    /\ ~coord.loading

\* C14: on the fallback backend a call of groupUsers returns with loading true
\* and nothing emitted on the result stream; a result is emitted only by the
\* deferred callback, in a later tick, which also sets loading to false.
C14_FallbackDefers ==
    [][ ~coord.worker =>
          /\ cev'.op = "groupUsers" => coord'.loading /\ stream' = stream
          /\ stream' # stream => cev'.op = "fallbackTick" /\ ~coord'.loading
                                  /\ stream'[Len(stream')].id = cev'.id ]_vars

\* the deferred callback of a fallback request has published a non-empty
\* grouping
C14_Witness ==
    /\ ~coord.worker
    /\ cev.op = "fallbackTick"
    /\ Len(stream) = 1 /\ stream[1].groups # <<>>
    /\ ~coord.loading

\* the record of the list `users` that has the identifier uuid
InputOf(users, uuid) == {users[i] : i \in {j \in 1..Len(users) : users[j].uuid = uuid}}

\* C15: on the worker backend every member of every published group is a User
\* instance equal, field by field, to the input record that has its identifier.
C15_RoundTrip ==
    coord.worker =>
        \A e \in 1..Len(stream) :
            \A g \in 1..Len(stream[e].groups) :
                \A m \in 1..Len(stream[e].groups[g].users) :
                    LET member == stream[e].groups[g].users[m]
                    IN  /\ member.proto = "User"
                        /\ InputOf(reqs[stream[e].id].users, member.uuid) = {member}

\* a grouping of three records with dates of birth and one of a record with no
\* field set have been published by the worker backend
C15_Witness ==
    /\ coord.worker
    /\ Len(stream) = 2
    /\ \E e \in 1..2 : Len(reqs[stream[e].id].users) = 3
    /\ \E e \in 1..2 : \E g \in 1..Len(stream[e].groups) :
          \E m \in 1..Len(stream[e].groups[g].users) :
              stream[e].groups[g].users[m].dateOfBirth = NoDate

-----------------------------------------------------------------------------
(* Properties of the search box (SpecList) *)

\* the request performSearch makes in the component state c: over the filtered
\* set if the term is non-empty, over the full record set otherwise
FreshRequest(c) ==
    Request(IF c.searchTerm # <<>> THEN c.filteredUsers ELSE c.users,
            c.currentGrouping)

\* C16 as stated: every window that ends updates the stable term, once, to the
\* value typed last.
C16_OneUpdatePerBurst ==
    lev.op = "debounceFire" => lev.updated /\ lc.searchTerm = lev.term

\* C16, amended: an input and the passing of time within the window change
\* nothing of searchTerm, filteredUsers or the grouping; the stable term is
\* set by nothing but the end of a window that has run its 300 time units
\* with no further input; the end of the window runs the update once, to the
\* value typed last, unless that value is the one let through last, and then
\* it runs no update and the stable term is that value already.
C16_Debounce ==
    [][ /\ lev'.op \in {"searchInput", "tick"} =>
              /\ lc' = lc /\ asked' = asked /\ subs' = subs /\ lastOut' = lastOut
              /\ ~lev'.updated
        /\ lev'.op = "searchInput" =>
              deb'.pending /\ deb'.left = DebounceTime /\ deb'.value = lev'.term
        /\ (lev'.updated \/ lc'.searchTerm # lc.searchTerm) =>
              lev'.op = "debounceFire"
        /\ lev'.op = "debounceFire" =>
              /\ deb.pending /\ deb.left = 0 /\ ~deb'.pending
              /\ lev'.term = deb.value
              /\ lc'.searchTerm = deb.value
              /\ lev'.updated <=> ~(lastOut.has /\ lastOut.value = deb.value)
              /\ ~lev'.updated =>
                    lc' = lc /\ asked' = asked /\ subs' = subs /\ lastOut' = lastOut
      ]_vars

\* a burst of two inputs has ended in one update, to the value typed last,
\* which differs from the term before
C16_Witness ==
    /\ lev.op = "debounceFire" /\ lev.inputs = 2 /\ lev.updated
    /\ lev.term = <<"a", "l">> /\ lc.searchTerm = <<"a", "l">>
    /\ lc.filteredUsers = <<Feed[1]>>

\* C17: when the value that comes out of the window equals the stable search
\* term, the initial empty term included, nothing is triggered: searchTerm is
\* not rewritten, no filtering runs and no grouping request is issued.
C17_NoRetrigger ==
    [][ (lev'.op = "debounceFire" /\ deb.value = lc.searchTerm) =>
            /\ ~lev'.updated
            /\ lev'.issued = <<>>
            /\ lc' = lc /\ asked' = asked /\ subs' = subs
      ]_vars

\* C19: every change of the stable search term, shown grouped or not, makes
\* one fresh grouping request with the current criterion, over the filtered
\* set if the term is non-empty and over the full record set otherwise.
C19_RegroupOnTermChange ==
    [][ (lev'.op = "debounceFire" /\ lc'.searchTerm # lc.searchTerm) =>
            /\ lev'.issued = <<FreshRequest(lc')>>
            /\ asked' = FreshRequest(lc')
      ]_vars

-----------------------------------------------------------------------------
(* Properties of the age buckets (SpecAge) *)

\* the bucket of an age by the boundaries of the specification
BucketOf(a) ==
    CASE a \in 0..17  -> <<"0", "-", "1", "7">>
      [] a \in 18..24 -> <<"1", "8", "-", "2", "4">>
      [] a \in 25..34 -> <<"2", "5", "-", "3", "4">>
      [] a \in 35..44 -> <<"3", "5", "-", "4", "4">>
      [] a \in 45..54 -> <<"4", "5", "-", "5", "4">>
      [] a \in 55..64 -> <<"5", "5", "-", "6", "4">>
      [] a >= 65      -> <<"6", "5", "+">>
      [] a = NoAge    -> <<"0", "-", "1", "7">>

\* the groups are the one bucket of the one record
OneBucket(groups) ==
    /\ Len(groups) = 1
    /\ groups[1].key = BucketOf(gUsers[1].age)
    /\ groups[1].key # Unknown
    /\ groups[1].users = gUsers

\* C20: under age grouping a record of age a is placed in the bucket of the
\* half-open boundaries 18, 25, 35, 45, 55, 65, and a record with no age is
\* placed in "0-17", never in "Unknown"; by either engine.
C20_AgeBuckets ==
    (gBy = "age" /\ Len(gUsers) = 1) =>
        /\ gSync.done => OneBucket(gSync.groups)
        /\ gWorker.done => OneBucket(gWorker.groups)

\* a record with no age has been grouped by both engines
C20_Witness ==
    /\ gBy = "age" /\ Len(gUsers) = 1 /\ gUsers[1].age = NoAge
    /\ gSync.done /\ gWorker.done
    /\ gSync.groups[1].key = <<"0", "-", "1", "7">>

-----------------------------------------------------------------------------
(* Properties of searching (SpecSearch) *)

SearchFields == {"firstname", "lastname", "email", "phone", "nat", "country", "city"}

\* the record matches the term: the term is blank, or one of the seven fields
\* holds it as a substring, letter case set aside
Matches(user, term) ==
    \/ IsBlank(term)
    \/ \E f \in SearchFields :
          user[f] # Undef /\ StrIncludes(toLowerCase(user[f]), toLowerCase(term))

\* the records of users that match, in their order
Matching(users, term) ==
    LET Hit(user) == Matches(user, term) IN SelectSeq(users, Hit)

\* C18: searchUsers(term) returns, in their order, exactly the records of the
\* accumulated set that match the term; the full set for a blank term.
C18_SearchMatches ==
    found.done => found.users = Matching(records, query)

-----------------------------------------------------------------------------
(* Properties of keys, labels and member order (SpecEngine) *)

\* the key of a record under alphabetical grouping
AlphaKey(u) ==
    IF u.firstname = Undef \/ u.firstname = <<>> THEN Unknown
    ELSE <<CharToUpper(u.firstname[1])>>

\* every member of every group has the group's key, and every record is a
\* member of a group
KeyedByFirstLetter(groups) ==
    /\ \A g \in 1..Len(groups) : \A m \in 1..Len(groups[g].users) :
          groups[g].key = AlphaKey(groups[g].users[m])
    /\ \A i \in 1..Len(gUsers) :
          \E g \in 1..Len(groups) : \E m \in 1..Len(groups[g].users) :
              groups[g].users[m] = gUsers[i]

IsScenario == Len(gUsers) = 5 /\ {gUsers[i] : i \in 1..5} = Scenario

\* the keys of the groups with their sizes, in order
ShapeOf(groups) ==
    [g \in 1..Len(groups) |->
        <<groups[g].key, groups[g].count, Len(groups[g].users)>>]

\* C21: under alphabetical grouping the key of a record is the uppercased
\* first character of its first name, or "Unknown" when the first name is
\* absent or empty; the five records of the scenario, in any order, give the
\* groups A (2), B (1), Unknown (2), in that order; by either engine.
C21_AlphabeticalKeys ==
    gBy = "alphabetical" =>
        /\ gSync.done =>
              /\ KeyedByFirstLetter(gSync.groups)
              /\ IsScenario => ShapeOf(gSync.groups) =
                     << <<(<<"A">>), 2, 2>>, <<(<<"B">>), 1, 1>>, <<Unknown, 2, 2>> >>
        /\ gWorker.done =>
              /\ KeyedByFirstLetter(gWorker.groups)
              /\ IsScenario => ShapeOf(gWorker.groups) =
                     << <<(<<"A">>), 2, 2>>, <<(<<"B">>), 1, 1>>, <<Unknown, 2, 2>> >>

\* the scenario, its records without a first name first, has been grouped by
\* both engines
C21_Witness ==
    /\ gBy = "alphabetical" /\ IsScenario
    /\ gUsers[1].firstname = Undef /\ gUsers[2].firstname = <<>>
    /\ gUsers[3].firstname = <<"B", "o">> /\ gUsers[4].firstname = <<"a", "l">>
    /\ gSync.done /\ gWorker.done
    /\ Len(gSync.groups) = 3 /\ gSync.groups[1].key = <<"A">>

\* the display name of a nationality code, on the codes of the records
DisplayName(code) ==
    CASE code = <<"D", "E">> -> <<"G", "e", "r", "m", "a", "n", "y">>
      [] code = <<"U", "S">> -> <<"U", "n", "i", "t", "e", "d", " ", "S", "t", "a", "t", "e", "s">>
      [] code = <<"G", "B">> -> <<"U", "n", "i", "t", "e", "d", " ", "K", "i", "n", "g", "d", "o", "m">>
      [] OTHER -> code

\* the human-readable name of an age bucket
BucketName(key) ==
    CASE key = <<"0", "-", "1", "7">> -> <<"U", "n", "d", "e", "r", " ", "1", "8">>
      [] key = <<"6", "5", "+">> -> <<"6", "5", "+", " ", "y", "e", "a", "r", "s">>
      [] OTHER -> key \o <<" ", "y", "e", "a", "r", "s">>

\* the label the specification gives to a key
ExpectedLabel(key, groupBy) ==
    CASE key = Unknown -> Unknown
      [] key # Unknown /\ groupBy = "nationality" -> DisplayName(key)
      [] key # Unknown /\ groupBy = "age" -> BucketName(key)
      [] key # Unknown /\ groupBy = "gender" -> <<CharToUpper(key[1])>> \o Tail(key)
      [] OTHER -> key

Labelled(groups) ==
    \A g \in 1..Len(groups) :
        groups[g].label = ExpectedLabel(groups[g].key, gBy)

\* C22: the label of every group is "Unknown" for the key "Unknown", the
\* display name of the code or the raw code under nationality, the name of
\* the bucket under age, the capitalized key under gender, and the key under
\* alphabetical; by either engine.
C22_Labels ==
    gBy \in Criteria =>
        /\ gSync.done => Labelled(gSync.groups)
        /\ gWorker.done => Labelled(gWorker.groups)

\* under nationality a code of the table, a code outside it and a record with
\* no code have been labelled
C22_Witness ==
    /\ gBy = "nationality" /\ gSync.done /\ gWorker.done
    /\ Len(gSync.groups) = 3
    /\ gSync.groups[1].label = <<"G", "e", "r", "m", "a", "n", "y">>
    /\ gSync.groups[2].key = <<"X", "X">> /\ gSync.groups[2].label = <<"X", "X">>
    /\ gSync.groups[3].key = Unknown /\ gSync.groups[3].label = Unknown

\* the first name a member is ordered by
NameOf(u) == IF u.firstname = Undef THEN <<>> ELSE u.firstname

\* the place of the record u in the input record list
PlaceOf(u) == CHOOSE i \in 1..Len(gUsers) : gUsers[i] = u

\* the members of every group are in non-decreasing order of first name, and
\* members of equal first names in the order of the input
MembersOrdered(groups) ==
    \A g \in 1..Len(groups) :
        \A i, j \in 1..Len(groups[g].users) :
            i < j =>
                LET a == groups[g].users[i]
                    b == groups[g].users[j]
                IN  /\ localeCompare(NameOf(a), NameOf(b)) <= 0
                    /\ NameOf(a) = NameOf(b) => PlaceOf(a) < PlaceOf(b)

\* C23: within every group the members are in non-decreasing order of first
\* name, a member without a first name ordered as the empty string, and
\* members with equal first names keep their order from the input; by either
\* engine, under every criterion.
C23_MembersSorted ==
    /\ gSync.done => MembersOrdered(gSync.groups)
    /\ gWorker.done => MembersOrdered(gWorker.groups)

\* a group holds a member without a first name before two members of equal
\* first names, and these two in their input order
C23_Witness ==
    /\ gSync.done /\ gWorker.done /\ gBy = "country" /\ Len(gUsers) = 3
    /\ gUsers[1].uuid = 7 /\ gUsers[2].uuid = 3 /\ gUsers[3].uuid = 4
    /\ Len(gSync.groups) = 1
    /\ gSync.groups[1].users = <<gUsers[3], gUsers[1], gUsers[2]>>
    /\ gWorker.groups[1].users = <<gUsers[3], gUsers[1], gUsers[2]>>

-----------------------------------------------------------------------------
(* Properties of the empty record list (SpecCoord) *)

\* C24: for every criterion, grouping the empty record list yields the empty
\* group list, by either engine, and the result published for a request with
\* the empty record list is the empty group list.
C24_EmptyInEmptyOut ==
    /\ \A groupBy \in Criteria :
          /\ performSyncGrouping(<<>>, groupBy) = <<>>
          /\ workerGroupUsers(<<>>, groupBy).groups = <<>>
    /\ \A e \in 1..Len(stream) :
          reqs[stream[e].id].users = <<>> => stream[e].groups = <<>>

\* the fallback has published the empty result of a request with no records,
\* and the result of a request with records
C24_Witness ==
    /\ ~coord.worker /\ Len(stream) = 2
    /\ reqs[stream[1].id].users = <<>> /\ stream[1].groups = <<>>
    /\ reqs[stream[2].id].users # <<>> /\ stream[2].groups # <<>>

-----------------------------------------------------------------------------
(* Properties of teardown and of the stop after a failure (SpecApp) *)

\* the step is the callback of an auto-continuation timer
TimerStep == ev'.via \in {"autoLoadUsers", "autoLoadTimer"}

-----------------------------------------------------------------------------
(* Properties of the loading flag (FairSpec) *)

\* C27: every answer of the upstream to a page fetch, a full page, a short
\* page, an HTTP error, an error body or a response that cannot be mapped,
\* leaves loading = false; and since the upstream answers, a pagination state
\* with loading = true is always followed by one with loading = false.
C27_LoadingEnds ==
    /\ [][ ev'.op \in {"fetchOk", "fetchError", "fetchMapError"} =>
              ~pag'.loading ]_vars
    /\ [](pag.loading => inflight # <<>>)
    /\ (pag.loading ~> ~pag.loading)

\* a response that cannot be mapped has been answered to the fetch of page 2,
\* and loading is false
C27_Witness ==
    /\ ev.op = "fetchMapError" /\ ev.page = 2
    /\ ~pag.loading /\ pag.error # NoError /\ inflight = <<>>

-----------------------------------------------------------------------------
(* Properties of the coordinator's teardown (SpecCoord) *)

\* C28: a groupUsers call made after teardown of the coordinator is not
\* accepted: it does not change the loading flag, and nothing is handed to
\* the worker or deferred for it.
C28_NoRequestAfterTeardown ==
    [][ (coord.terminated /\ cev'.op = "groupUsers") =>
            /\ coord'.loading = coord.loading
            /\ tasks' = tasks /\ toWorker' = toWorker
      ]_vars

-----------------------------------------------------------------------------
(* Properties of the filtered set and of the search subscriptions (SpecList) *)

\* C29: whenever the list component has taken over the accumulated record
\* set, filteredUsers holds, in their order, the records of that set that
\* match the stable searchTerm; the full set when the term is blank.
C29_FilteredMatches ==
    (lc.state = "active" /\ lc.users = records
        /\ lc.previousUsersLength = Len(lc.users)) =>
        lc.filteredUsers = Matching(records, lc.searchTerm)

\* C30: at most one search-result subscription is live, and an update of the
\* accumulated record set causes at most one grouping request.
C30_OneSubscription ==
    /\ Len(subs) <= 1
    /\ lev.op = "serviceEmit" => Len(lev.issued) <= 1

-----------------------------------------------------------------------------
(* C31: toggleUserExpansion(u) sets expandedUser to u when it was null or    *)
(* another user and to null when it was u, and changes nothing else: not    *)
(* another signal of the component, nor a timer, a subscription or a        *)
(* grouping request.  expandedUser holds one value, so at most one record   *)
(* is expanded, and two calls with the same id from the collapsed state     *)
(* end collapsed.                                                           *)
ToggleStep == lev'.op = "toggleUserExpansion" /\ lev' # lev

C31_ToggleExpansion ==
    [][ ToggleStep =>
          LET u == lev'.term
          IN  /\ lc'.expandedUser = (IF lc.expandedUser = u THEN Null ELSE u)
              /\ lc' = [lc EXCEPT !.expandedUser = lc'.expandedUser]
              /\ lc'.expandedUser \in UserIds \cup {Null}
              /\ <<deb, lastOut, subs, asked, records>>' =
                     <<deb, lastOut, subs, asked, records>>
              /\ (lev.op = "toggleUserExpansion" /\ lev.term = u
                     /\ lc.expandedUser = u) => lc'.expandedUser = Null ]_vars

\* a record is collapsed again by the second of two calls with its id
C31_Witness ==
    /\ lev.op = "toggleUserExpansion"
    /\ lev.term = <<"1">>
    /\ lc.expandedUser = Null
    /\ lc.users # <<>>

\* a record is expanded while another one was
C31_WitnessOther ==
    /\ lev.op = "toggleUserExpansion"
    /\ lev.term = <<"2">>
    /\ lc.expandedUser = <<"2">>

-----------------------------------------------------------------------------
(* C32: the worker's groupUsers and performSyncGrouping compute the same     *)
(* function: on the same record list and criterion the two group lists have *)
(* the same length and, position by position, the same key, label, count    *)
(* and member identifiers in the same order.                                *)
MemberIds(g) == [i \in 1..Len(g.users) |-> g.users[i].uuid]

Outline(groups) ==
    [i \in 1..Len(groups) |->
        [key |-> groups[i].key, label |-> groups[i].label,
         count |-> groups[i].count, ids |-> MemberIds(groups[i])]]

C32_BackendsAgree ==
    (gSync.done /\ gWorker.done) => Outline(gWorker.groups) = Outline(gSync.groups)

\* both engines have run on three records that make two groups, one of them
\* 'Unknown', listed last by both
C32_Witness ==
    /\ gSync.done /\ gWorker.done
    /\ Len(gUsers) = 3
    /\ Len(gWorker.groups) = 2
    /\ gWorker.groups[2].key = Unknown
    /\ gSync.groups[2].key = Unknown
    /\ gWorker.groups[1].count + gWorker.groups[2].count = 3

-----------------------------------------------------------------------------
(* C38: for a non-empty record list and a criterion outside alphabetical,    *)
(* nationality, age and gender, each engine returns exactly one group, with *)
(* key 'All' and label 'All', whose members are the input records, every    *)
(* one of them once.                                                        *)
OneGroupOfAll(groups) ==
    /\ Len(groups) = 1
    /\ groups[1].key = All
    /\ groups[1].label = All
    /\ groups[1].count = Len(gUsers)
    /\ Len(groups[1].users) = Len(gUsers)
    /\ \A i \in 1..Len(gUsers) :
          \E j \in 1..Len(gUsers) : groups[1].users[j] = gUsers[i]

-----------------------------------------------------------------------------
(* C34: the coordinator's loading flag is false only when no request is     *)
(* outstanding: while a request that was issued has neither delivered its   *)
(* result nor failed, loading is true, also when two requests overlap and   *)
(* the first one completes.                                                 *)
C34_LoadingWhileOutstanding == Outstanding > 0 => coord.loading

-----------------------------------------------------------------------------
(* C37: the auto-continuation can act: when the initial load of page size    *)
(* 5000 returns more than 0 and fewer than 1000 records, the composition    *)
(* root's auto-continuation eventually makes a loadNextPage call that       *)
(* starts a fetch (autoLoadUsers having found 0 < count < 1000, hasMore and *)
(* not loading).                                                            *)
ShortInitialLoad ==
    /\ app = "active"
    /\ ev.op = "fetchOk" /\ ev.page = 1 /\ ev.n = DefaultPageSize
    /\ ev.k > 0 /\ ev.k < LowWaterMark

AutoFetchStarted ==
    ev.op = "loadNextPage" /\ ev.via = "autoLoadTimer" /\ ev.started

C37_AutoContinuationActs == ShortInitialLoad ~> AutoFetchStarted

-----------------------------------------------------------------------------
(* C36: whenever no fetch is in flight the page counter is at least 1 and   *)
(* one more than the number of pages loaded since the last reset, and the   *)
(* accumulated set is the records of pages 1 .. page-1 in page order, each  *)
(* page once; and between resets the page counter never decreases.  The     *)
(* counter is followed step by step: a reset sets it to 1, a page that was  *)
(* loaded adds one to it, and nothing else changes it.                      *)
PagesInOrder(users) == \A i \in 1..Len(users) : users[i].page = i

C36_PageCounter ==
    /\ [](inflight = <<>> =>
             /\ pag.page >= 1
             /\ PagesInOrder(allUsers)
             /\ \A i \in 1..Len(allUsers) : allUsers[i].page < pag.page)
    /\ [][ pag'.page # pag.page =>
              \/ ev'.op = "resetAndLoad" /\ pag'.page = 1
              \/ ev'.op = "fetchOk" /\ pag'.page = pag.page + 1 ]_vars
    /\ [][ ev'.op # "resetAndLoad" => pag'.page >= pag.page ]_vars

-----------------------------------------------------------------------------
(* C33: delivery follows completion order and not issue order: of two       *)
(* requests issued one after the other, the result of the first can be      *)
(* delivered after the result of the second, and the grouping left          *)
(* published once both have completed is then the one of the older request. *)
(* As a property of the executions in which every backend does its work:    *)
(* two requests that are outstanding together come to a state where both    *)
(* have delivered and the older one's result was delivered last.            *)
BothOutstanding ==
    /\ Len(reqs) = 2
    /\ reqs[1].status = "pending" /\ reqs[2].status = "pending"

OlderDeliveredLast ==
    \E i, j \in 1..Len(stream) : i < j /\ stream[i].id = 2 /\ stream[j].id = 1

-----------------------------------------------------------------------------
(* C35: whenever the grouped view is shown and nothing is pending (no       *)
(* debounce timer, no emission of the record set that the component has not *)
(* taken over, no grouping request unanswered), the groups the component    *)
(* holds are the grouping, by the current criterion, of the records it      *)
(* shows for the stable term: the matching records if the term is not       *)
(* empty, the full current record set otherwise.                            *)
AtRest ==
    /\ lc.state = "active"
    /\ ~deb.pending
    /\ lc.users = records
    /\ lc.previousUsersLength = Len(lc.users)

ShownRecords ==
    IF lc.searchTerm # <<>> THEN Matching(records, lc.searchTerm) ELSE records

C35_GroupsAreCurrent ==
    (AtRest /\ lc.showGrouped) =>
        groupedUsers = performSyncGrouping(ShownRecords, lc.currentGrouping)

=============================================================================
